---- MODULE Spec2Model ----
(***************************************************************************)
(* Model of the modbus-server: the register banks built by                *)
(* _get_modbus_device_context / _prepare_register, the RegisterPersistence *)
(* object (load_registers, save_registers, auto-save thread) and the      *)
(* start-up sequence of run_server.                                       *)
(***************************************************************************)
EXTENDS Integers, Sequences, FiniteSets, TLC

\* ------------------------------------------------------------------------
\* Bounds of the model
\* ------------------------------------------------------------------------
\* number of addresses of a bank (65536 in the program)
NumAddr == 2
\* largest word value (65535 in the program)
WordMax == 1
\* client writes accepted in one behaviour
MaxWrites == 1
\* input/output errors (of open, read, write, rename) in one behaviour
MaxFaults == 1
\* HTTPServer objects ever created by one MetricsServer
MaxServers == 2
\* calls of the tracking data blocks, or client requests, in one behaviour
MaxCalls == 2
\* auto-save threads ever created on one RegisterPersistence object
MaxThreads == 2

\* ------------------------------------------------------------------------
\* Python values: int, bool (an int subtype whose numeric value is 0/1),
\* str and None
\* ------------------------------------------------------------------------
PyInt(n) == [t |-> "int", v |-> n]
PyBool(b) == [t |-> "bool", v |-> IF b THEN 1 ELSE 0]
PyStr(s) == [t |-> "str", v |-> s]
PyNone == [t |-> "none", v |-> 0]

\* isinstance(val, int): bool is a subclass of int
IsInstanceInt(val) == val.t \in {"int", "bool"}

\* Python's == on scalars: True == 1 and False == 0
PyEq(a, b) ==
    IF IsInstanceInt(a) /\ IsInstanceInt(b) THEN a.v = b.v ELSE a = b

\* Python's == on two dicts addr -> value
DictEq(d1, d2) ==
    /\ DOMAIN d1 = DOMAIN d2
    /\ \A k \in DOMAIN d1 : PyEq(d1[k], d2[k])

\* outcome of a call: a value or a raised exception
Ok(x) == [ok |-> TRUE, val |-> x]
Raise(e) == [ok |-> FALSE, err |-> e]
\* outcome of a loop body that ran into "continue"
Skip == [ok |-> TRUE, skip |-> TRUE]
IsSkip(r) == "skip" \in DOMAIN r

\* the empty dict {}
EmptyDict == [k \in {} |-> PyNone]

\* ------------------------------------------------------------------------
\* Strings of the model and the conversions between int and str
\* ------------------------------------------------------------------------
\* decimal numerals of -1 .. 6, as str() writes them
DecStr == <<"-1", "0", "1", "2", "3", "4", "5", "6">>

\* str(n), used by json.dump for the integer keys of a dict
Str(n) == DecStr[n + 2]

\* strings starting with "0x", with their length and (when they are
\* hexadecimal numerals) their value
HexStr == {"0x1", "0xZ", "0x00001"}
StrLen(s) == CASE s = "0x1" -> 3 [] s = "0xZ" -> 3 [] s = "0x00001" -> 7
               [] s = "abc" -> 3 [] OTHER -> 1

\* int(s, 16)
IntBase16(s) ==
    IF s \in {"0x1", "0x00001"} THEN Ok(1) ELSE Raise("ValueError")

\* int(s, 0): decimal or 0x-prefixed hexadecimal
IntBase0(s) ==
    CASE \E i \in 1..Len(DecStr) : DecStr[i] = s ->
            Ok((CHOOSE i \in 1..Len(DecStr) : DecStr[i] = s) - 2)
      [] s \in {"0x1", "0x00001"} -> Ok(1)
      [] OTHER -> Raise("ValueError")

\* int(val), as ModbusSparseDataBlock applies it to every configured value
IntOf(val) ==
    CASE IsInstanceInt(val) -> Ok(PyInt(val.v))
      [] val.t = "str" ->
            IF \E i \in 1..Len(DecStr) : DecStr[i] = val.v
            THEN Ok(PyInt((CHOOSE i \in 1..Len(DecStr) : DecStr[i] = val.v) - 2))
            ELSE Raise("ValueError")
      [] OTHER -> Raise("TypeError")

\* ------------------------------------------------------------------------
\* _prepare_register
\* ------------------------------------------------------------------------
\* a dict loaded from JSON is the sequence of its <<key, value>> items in
\* file order; a key is a str (PyStr) or, for a dict built in Python, an int

\* lines 285-289: the address of a key
KeyOut(key) ==
    IF key.t = "str"
    THEN IntBase0(key.v)
    ELSE Ok(key.v)

\* lines 291-319: the value stored for an item: Ok(value), Skip for a
\* malformed item that is logged and skipped, or a raised exception
ValOut(val, init_type) ==
    CASE init_type = "word" /\ val.t = "str" /\ val.v \in HexStr
              /\ 3 <= StrLen(val.v) /\ StrLen(val.v) <= 6 ->
            IF IntBase16(val.v).ok
            THEN Ok(PyInt(IntBase16(val.v).val))
            ELSE IntBase16(val.v)
      [] init_type = "word" /\ IsInstanceInt(val)
              /\ 0 <= val.v /\ val.v <= WordMax ->
            Ok(val)
      [] init_type = "boolean" ->
            IF val.t = "bool" THEN Ok(val)
            ELSE IF val.t = "int" THEN Ok(PyBool(val.v # 0))
            ELSE Ok(val)
      [] OTHER -> Skip

\* lines 284-320: the loop over the items, from item i on
RECURSIVE PrepareLoop(_, _, _, _)
PrepareLoop(register, i, out, init_type) ==
    IF i > Len(register) THEN Ok(out)
    ELSE LET k == KeyOut(register[i][1])
             v == ValOut(register[i][2], init_type)
         IN IF ~k.ok THEN k
            ELSE IF ~v.ok THEN v
            ELSE IF IsSkip(v)
                 THEN PrepareLoop(register, i + 1, out, init_type)
            ELSE PrepareLoop(register, i + 1,
                    [a \in (DOMAIN out) \cup {k.val} |->
                        IF a = k.val THEN v.val ELSE out[a]],
                    init_type)

\* lines 322-334: fill every undefined address with the default
FillUndefined(out, init_type) ==
    [a \in (DOMAIN out) \cup (0..(NumAddr - 1)) |->
        IF a \in DOMAIN out THEN out[a]
        ELSE IF init_type = "word" THEN PyInt(0) ELSE PyBool(FALSE)]

\* lines 259-336: register is [t |-> "dict", v |-> items] for a dict and a
\* scalar for a value that is no dict
PrepareRegister(register, init_type, initialize_undefined_registers) ==
    IF register.t # "dict" THEN Raise("ValueError")
    ELSE IF Len(register.v) = 0 THEN Ok(EmptyDict)
    ELSE LET r == PrepareLoop(register.v, 1, EmptyDict, init_type)
         IN IF ~r.ok THEN r
            ELSE IF initialize_undefined_registers
                 THEN Ok(FillUndefined(r.val, init_type))
                 ELSE r

\* ------------------------------------------------------------------------
\* Data blocks and the device context
\* ------------------------------------------------------------------------
Banks == {"d", "c", "h", "i"}
BankOrder == <<"d", "c", "h", "i">>

\* a dict value: its items in order
PyDict(items) == [t |-> "dict", v |-> items]

\* (a context built without looking at the loaded snapshot)
NeverTruthy(x) == FALSE

\* bool(x) of a loaded value: None, {} and 0 are false
Truthy(x) ==
    CASE x.t = "dict" -> Len(x.v) > 0
      [] x.t = "none" -> FALSE
      [] x.t \in {"int", "bool"} -> x.v # 0
      [] OTHER -> TRUE

\* d.get(key, {}) of a dict given by its items (the last item of a key wins)
DictGet(d, key) ==
    LET hits == {i \in 1..Len(d.v) : d.v[i][1] = PyStr(key)}
    IN IF hits = {} THEN PyDict(<<>>)
       ELSE d.v[CHOOSE i \in hits : \A j \in hits : j <= i][2]

\* ModbusSequentialDataBlock.create(): every address holds 0
SequentialCreate ==
    [kind |-> "seq", values |-> [a \in 0..(NumAddr - 1) |-> PyInt(0)]]

\* ModbusSparseDataBlock(values): every value goes through int()
SparseDataBlock(values) ==
    IF \E a \in DOMAIN values : ~IntOf(values[a]).ok
    THEN IntOf(values[CHOOSE a \in DOMAIN values : ~IntOf(values[a]).ok])
    ELSE Ok([kind |-> "sparse",
             values |-> [a \in DOMAIN values |-> IntOf(values[a]).val]])

\* lines 189-230: a non-empty dict gives a sparse block, anything else the
\* all-zero sequential block
DataBlock(register) ==
    IF DOMAIN register # {} THEN SparseDataBlock(register)
    ELSE Ok(SequentialCreate)

\* per bank: key in the snapshot, key in the configuration, init_type
SnapshotKey == [d |-> "discrete_inputs", c |-> "coils",
                h |-> "holding_registers", i |-> "input_registers"]
ConfigKey == [d |-> "discreteInput", c |-> "coils",
              h |-> "holdingRegister", i |-> "inputRegister"]
InitType == [d |-> "boolean", c |-> "boolean", h |-> "word", i |-> "word"]

\* (a context that takes a bank the snapshot has no entry for from the
\* configuration)
PreparedRegistersPerBank(persistence_data, config) ==
    [b \in Banks |->
        IF /\ persistence_data.t = "dict"
           /\ Len(DictGet(persistence_data, SnapshotKey[b]).v) > 0
        THEN PrepareRegister(DictGet(persistence_data, SnapshotKey[b]),
                 InitType[b], config.initializeUndefinedRegisters)
        ELSE PrepareRegister(DictGet(config.registers, ConfigKey[b]),
                 InitType[b], config.initializeUndefinedRegisters)]

\* lines 142-185: the four prepared registers, from the snapshot when it is
\* truthy and from the configuration otherwise
PreparedRegisters(persistence_data, config) ==
    IF Truthy(persistence_data)
    THEN IF persistence_data.t # "dict"
         THEN [b \in Banks |-> Raise("AttributeError")]
         ELSE [b \in Banks |->
                 PrepareRegister(DictGet(persistence_data, SnapshotKey[b]),
                     InitType[b], config.initializeUndefinedRegisters)]
    ELSE [b \in Banks |->
             PrepareRegister(DictGet(config.registers, ConfigKey[b]),
                 InitType[b], config.initializeUndefinedRegisters)]

\* lines 132-232: _get_modbus_device_context
GetModbusDeviceContext(persistence_data, config) ==
    LET regs == PreparedRegisters(persistence_data, config)
    IN IF \E b \in Banks : ~regs[b].ok
       THEN regs[CHOOSE b \in Banks : ~regs[b].ok]
       ELSE LET blocks == [b \in Banks |-> DataBlock(regs[b].val)]
            IN IF \E b \in Banks : ~blocks[b].ok
               THEN blocks[CHOOSE b \in Banks : ~blocks[b].ok]
               ELSE Ok([b \in Banks |-> blocks[b].val])

\* what a bank answers for one address: its value, or the exception
\* response IllegalDataAddress (code 2) for an address the block does not hold
Answer(block, a) ==
    IF a \in DOMAIN block.values THEN <<"value", block.values[a].v>>
    ELSE <<"exception", 2>>

\* ------------------------------------------------------------------------
\* Snapshot extraction and the JSON file format
\* ------------------------------------------------------------------------
\* lines 124-166: _extract_register_values for one block
ExtractRegisterValues(block) ==
    IF block.kind = "sparse" THEN block.values
    ELSE LET nz == {a \in 0..(NumAddr - 1) : block.values[a].v # 0}
         IN [a \in nz |-> block.values[a]]

\* lines 97-102: the snapshot of the four banks
SnapshotData(context) == [b \in Banks |-> ExtractRegisterValues(context[b])]

\* data == self._last_data (None is equal to no dict)
DataEq(data, last) ==
    /\ last # PyNone
    /\ \A b \in Banks : DictEq(data[b], last[b])

\* the items of a dict addr -> value as json.dump writes them: the integer
\* key becomes its decimal string
RECURSIVE DumpItems(_)
DumpItems(dict) ==
    IF DOMAIN dict = {} THEN <<>>
    ELSE LET a == CHOOSE x \in DOMAIN dict : \A y \in DOMAIN dict : x <= y
         IN <<(<<PyStr(Str(a)), dict[a]>>)>>
              \o DumpItems([x \in (DOMAIN dict) \ {a} |-> dict[x]])

\* line 111: json.dump(data): the document written to the file
JsonDump(data) ==
    PyDict([n \in 1..4 |->
        <<PyStr(SnapshotKey[BankOrder[n]]),
          PyDict(DumpItems(data[BankOrder[n]]))>>])

\* ------------------------------------------------------------------------
\* Files: a path names an inode (0: no such file); an inode holds the
\* chunks written to it.  json.dump reaches the file in WriteChunks writes.
\* ------------------------------------------------------------------------
WriteChunks == 2
Inodes == 1..(MaxThreads + 3)
Hole == [doc |-> PyNone, part |-> 0]
Chunk(doc, k) == [doc |-> doc, part |-> k]

\* the complete file holding one JSON document
FileOf(doc) == [k \in 1..WriteChunks |-> Chunk(doc, k)]

\* json.load of a file's content: the document when the file is one
\* complete document, JSONDecodeError otherwise
JsonLoad(chunks) ==
    IF Len(chunks) = WriteChunks /\ chunks = FileOf(chunks[1].doc)
    THEN Ok(chunks[1].doc)
    ELSE Raise("JSONDecodeError")

\* a write of one chunk at offset k - 1
WriteAt(chunks, k, ch) ==
    [j \in 1..(IF Len(chunks) > k THEN Len(chunks) ELSE k) |->
        IF j = k THEN ch ELSE IF j <= Len(chunks) THEN chunks[j] ELSE Hole]

\* (a save_registers writing the persistence file in place)
TempFileInPlace == "file"

\* line 109: the file save_registers writes to
TempFile == "tmp"

\* ------------------------------------------------------------------------
\* State
\* ------------------------------------------------------------------------
VARIABLES
    config,        \* CONFIG, read once from the configuration file
    path,          \* the persistence file and its ".tmp": path -> inode
    content,       \* inode -> chunks
    context,       \* the device context served by the listener
    loaded_data,   \* run_server's loaded_data
    srv_pc,        \* position of run_server
    last_data,     \* RegisterPersistence._last_data
    save_thread,   \* RegisterPersistence._save_thread (0: None)
    stop_event,    \* RegisterPersistence._stop_event is set
    thr,           \* per thread (0: the caller of the object's methods):
                   \* its position in save_loop / save_registers
    api_pc,        \* position of the caller of start/stop_auto_save
    trace,         \* history: what run_server has done in this run
    load_seen,     \* history: the file and the outcome of load_registers
    last_written,  \* history: the data of the object's last successful write
    writes,        \* client writes accepted so far
    faults,        \* input/output errors so far
    prep,          \* a call of _prepare_register: its arguments and its result
    net,           \* run_server from the store to the listener: the server
                   \* section of CONFIG, its locals, the listeners started
    tel,           \* the telemetry: the PrometheusMetrics counters and the
                   \* calls of the tracking data blocks
    prom,          \* a PrometheusMetrics object: its dicts, its gauge, its
                   \* lock and a call of generate_metrics
    msrv,          \* a MetricsServer: its fields, its thread, its sockets
                   \* and the GET requests it answers
    ext,           \* a call of _extract_register_values
    scan,          \* a bank written by the server while the auto-save
                   \* thread extracts it
    web,           \* the MetricsServer objects of one process and the class
                   \* variables of MetricsRequestHandler
    snap,          \* a call of save_registers in the auto-save thread while
                   \* the server writes to the banks
    lk             \* the threads that call one PrometheusMetrics object

vars == <<config, path, content, context, loaded_data, srv_pc, last_data,
          save_thread, stop_event, thr, api_pc, trace, load_seen,
          last_written, writes, faults, prep, net, tel, prom, msrv, ext,
          scan, web, snap, lk>>

\* the variables of the calls made outside a run of the server
calls == <<prep, net, tel, prom, msrv, ext, scan, web, snap, lk>>

\* the variables of the telemetry objects and of the extraction
rest == <<prom, msrv, ext, scan, web, snap, lk>>

\* no call of _prepare_register is observed
NoPrep == [register |-> <<>>, init_type |-> "none", init |-> FALSE,
           done |-> FALSE, out |-> <<>>]

\* function codes and exception codes the telemetry names
\* (FUNCTION_CODE_NAMES, EXCEPTION_CODE_NAMES)
ReadCodes == {1, 2, 3, 4}
WriteCodes == {5, 6, 15, 16}
FunctionCodes == ReadCodes \cup WriteCodes
ExceptionCodes == {1, 2, 3}

\* the addresses of a wrapped data block
TelAddrs == 0..(NumAddr - 1)

\* a Python list
PyList(items) == [t |-> "list", v |-> items]

\* no call of a tracking data block is observed (values: the argument of
\* setValues; result: what the call returned; wrapped: what the wrapped
\* block returned)
NoCall == [op |-> "none", rt |-> "none", address |-> 0, count |-> 0,
           values |-> PyNone, result |-> PyNone, wrapped |-> PyNone]

\* a tuple of one element, and a key that is missing from a dict
PyTuple(x) == [t |-> "tuple", v |-> <<x>>]
Absent == [t |-> "absent", v |-> 0]

\* dict.get(key, default)
GetOr(x, default) == IF x = Absent THEN default ELSE x

\* run_server has not reached the store (cfg: the configuration it reads;
\* shift: the address mapping of the store; request: history, the last
\* request address and the block address looked up for it)
NoNet == [pc |-> "off",
          cfg |-> [protocol |-> Absent, certificate |-> PyNone,
                   privateKey |-> PyNone, files |-> {}, zeroMode |-> FALSE],
          shift |-> 0, protocol |-> PyNone, start_tls |-> FALSE,
          started |-> <<>>, request |-> <<>>]

\* lines 74-91 of prometheus_metrics.py: the counters after __init__, and
\* the four wrapped blocks (collector: the tracking blocks have a
\* metrics_collector; n: calls and requests so far; last: history, the last
\* call of a tracking block; asked: history, the client requests per
\* function code; answered: history, the exception responses per code)
NoTel == [collector |-> FALSE,
          requests |-> [f \in FunctionCodes |-> 0],
          reads |-> [k \in Banks \X TelAddrs |-> 0],
          writes |-> [k \in Banks \X TelAddrs |-> 0],
          errors |-> [e \in ExceptionCodes |-> 0],
          blocks |-> [b \in Banks |-> [a \in TelAddrs |-> 0]],
          n |-> 0,
          last |-> NoCall,
          asked |-> [f \in FunctionCodes |-> 0],
          answered |-> [e \in ExceptionCodes |-> 0]]

\* a defaultdict(int) without keys
NoCounters == [k \in {} |-> 0]

\* no call of generate_metrics is in progress (at: history, the dicts when
\* the call took the lock)
NoGen == [pc |-> "idle", lines |-> <<>>, at |-> <<>>]

\* no PrometheusMetrics object is observed (lock: 1 while generate_metrics
\* holds self._lock; n: calls so far; last: history, the last call)
NoProm == [pc |-> "off", requests |-> NoCounters, reads |-> NoCounters,
           writes |-> NoCounters, errors |-> NoCounters, clients |-> 0,
           lock |-> 0, gen |-> NoGen, n |-> 0, last |-> "none"]

\* no answer of the HTTP handler is observed
NoResponse == [url |-> "", code |-> 0, body |-> <<>>]

\* no MetricsServer is observed (collector: self.metrics_collector is an
\* object; handler: MetricsRequestHandler.metrics_collector is one; server:
\* self.server, 0 for None; open: the listening sockets that are open;
\* made: the servers created; thread: the serving thread; shutdown: the
\* server was asked to shut down; api: the position of the caller of start
\* and stop; errors: the exceptions raised so far; last: history, the last
\* step; resp: history, the last answer)
NoMsrv == [pc |-> "off", collector |-> FALSE, handler |-> FALSE,
           running |-> FALSE, server |-> 0, open |-> {}, made |-> 0,
           thread |-> "none", shutdown |-> FALSE, api |-> "idle",
           errors |-> 0, last |-> "none", resp |-> NoResponse]

\* no call of _extract_register_values is observed (store: the block of
\* the bank asked for)
NoExt == [pc |-> "off", register_type |-> "none",
          store |-> [kind |-> "none", values |-> <<>>], out |-> <<>>]

\* no request of a client is observed
NoRequest == [op |-> "none", address |-> 0, values |-> <<>>]

\* no save of a sequential bank under client requests is observed (store:
\* the values of the block; addr, result: the locals of the loop of
\* _extract_register_values; n: client requests served; last: history, the
\* last request; states: history, the contents the block had while it was
\* being extracted; during: history, the writes served meanwhile)
NoScan == [pc |-> "off", store |-> <<>>, addr |-> 0, result |-> <<>>,
           n |-> 0, last |-> NoRequest, states |-> {}, during |-> 0]

\* no MetricsServer of a process is observed (handler: the class variables
\* of MetricsRequestHandler, 0 for None; servers: the MetricsServer
\* objects; last, who, resp: history, the last step, the server it was
\* made on and the last answer)
NoWeb == [pc |-> "off",
          handler |-> [metrics_collector |-> 0, metrics_path |-> "/metrics"],
          servers |-> <<>>, last |-> "none", who |-> 0, resp |-> NoResponse]

\* no save under writes is observed (store: the four blocks; done, data:
\* the banks save_registers has extracted and what it got; file: the
\* content of the persistence file; n: the client writes served; states:
\* history, the contents the store had during the call)
\* (failed: history, the banks whose extraction met a datastore error in
\* the call; ret: what the call returned; wrote: it replaced the file)
NoSnap == [pc |-> "off", store |-> <<>>, done |-> 0, data |-> <<>>,
           last_data |-> <<>>, file |-> <<>>, n |-> 0, states |-> {},
           failed |-> {}, ret |-> "none", wrote |-> FALSE]

\* the counters and the gauge of a collector, at zero
ZeroCounts == [requests |-> 0, reads |-> 0, writes |-> 0, errors |-> 0,
               clients |-> 0]

\* no thread of the collector is observed (lock: the thread that holds
\* self._lock, 0 for none; counts: one counter of each dict, and the gauge;
\* threads: the position, the call and the local value of each thread; n:
\* calls so far; seen: what the last generate_metrics read; expect, wanted,
\* overlap: history, the counts the calls add up to in the order they took
\* the lock, those counts when generate_metrics read, and whether two calls
\* were in progress at once)
NoLk == [pc |-> "off", lock |-> 0, counts |-> ZeroCounts, threads |-> <<>>,
         n |-> 0, seen |-> ZeroCounts, expect |-> ZeroCounts,
         wanted |-> ZeroCounts, overlap |-> FALSE]

\* the variables of the later sections
more == <<web, snap, lk>>
MoreIdle == web = NoWeb /\ snap = NoSnap /\ lk = NoLk

RestIdle ==
    prom = NoProm /\ msrv = NoMsrv /\ ext = NoExt /\ scan = NoScan /\ MoreIdle

CallsIdle == prep = NoPrep /\ net = NoNet /\ tel = NoTel /\ RestIdle

\* the outcomes of an input/output operation: TRUE, and FALSE (it raises
\* OSError) while errors are left
IoOutcomes == IF faults < MaxFaults THEN BOOLEAN ELSE {TRUE}
Fault(io_ok) == faults' = IF io_ok THEN faults ELSE faults + 1

Callers == 0..MaxThreads
AutoThreads == 1..MaxThreads
NoContext == [b \in {} |-> 0]
NoLoad == [exists |-> FALSE, readable |-> TRUE, chunks |-> <<>>,
           result |-> Ok(PyNone), done |-> FALSE]

\* a thread that does not exist / a caller that is in no call
\* (before: history, the persistence file when the call began, kept until a
\* successful return, and only under run_server, where calls do not overlap; wrote: history, the call replaced the file; nfinal:
\* history, the final saves begun)
NoThread == [pc |-> "none", mode |-> "none", data |-> PyNone, fd |-> 0,
             pos |-> 0, ret |-> "none", before |-> <<>>, wrote |-> FALSE,
             nfinal |-> 0]

\* the chunks of the persistence file (no chunks: no such file)
FileChunks(p, ct) == IF p["file"] = 0 THEN <<>> ELSE ct[p["file"]]

\* inodes that no path and no open file names are gone
Collect(p, th, ct) ==
    [n \in Inodes |->
        IF n = p["file"] \/ n = p["tmp"] \/ \E c \in Callers : th[c].fd = n
        THEN ct[n] ELSE <<>>]

FreeInode(p, th) ==
    CHOOSE n \in Inodes :
        /\ n # p["file"] /\ n # p["tmp"] /\ \A c \in Callers : th[c].fd # n
        /\ \A m \in Inodes :
             (m # p["file"] /\ m # p["tmp"] /\ \A c \in Callers : th[c].fd # m)
                => n <= m

\* (a load_registers that answers None for a file it cannot read or parse)
LoadRegistersLenient(exists, readable, chunks) ==
    IF exists /\ readable /\ JsonLoad(chunks).ok THEN JsonLoad(chunks)
    ELSE Ok(PyNone)

\* ------------------------------------------------------------------------
\* load_registers
\* ------------------------------------------------------------------------
\* lines 63-82: exists: os.path.isfile; readable: open() and read succeed
LoadRegisters(exists, readable, chunks) ==
    IF ~exists THEN Ok(PyNone)
    ELSE IF ~readable THEN Raise("RuntimeError")
    ELSE IF JsonLoad(chunks).ok THEN JsonLoad(chunks)
    ELSE Raise("RuntimeError")

\* ------------------------------------------------------------------------
\* save_registers, run by caller c (a thread of save_loop, or 0)
\* ------------------------------------------------------------------------
\* lines 120-122: what save_registers returns when a step raised
OnSaveError == "False"

\* (a cache updated before the rename is known to have succeeded)
LastDataAlways(replaced, data, last) == data

\* lines 114-116: _last_data after os.replace succeeded / raised
LastDataAfterReplace(replaced, data, last) ==
    IF replaced THEN data ELSE last

\* (a save_loop that ends after its first save)
AfterSaveOnce(mode) == "done"

\* where the caller goes on when save_registers has returned: save_loop
\* line 178 after a periodic save, its end after the final save
AfterSave(mode) ==
    CASE mode = "periodic" -> "wait"
      [] mode = "final" -> "done"
      [] OTHER -> "idle"

Returned(rec, r) ==
    [rec EXCEPT !.pc = IF r = "raise" THEN "done" ELSE AfterSave(rec.mode),
                !.ret = r, !.data = PyNone, !.fd = 0, !.pos = 0,
                !.before = IF r = "True" THEN <<>> ELSE @]

\* lines 94-106: extract the four banks; return True if nothing changed
SaveBegin(c) ==
    /\ thr[c].pc = "s_begin"
    /\ LET data == SnapshotData(context)
       IN thr' = [thr EXCEPT ![c] =
                IF DataEq(data, last_data)
                THEN Returned(@, "True")
                ELSE [@ EXCEPT !.pc = "s_open", !.data = data]]
    /\ UNCHANGED <<config, path, content, context, loaded_data, srv_pc,
                   last_data, save_thread, stop_event, api_pc, trace,
                   load_seen, last_written, writes, faults>>
    /\ UNCHANGED calls

\* line 110: open(temp_file, "w") creates or truncates the file
SaveOpen(c) ==
    /\ thr[c].pc = "s_open"
    /\ \E io_ok \in IoOutcomes :
         /\ Fault(io_ok)
         /\ IF io_ok
            THEN LET n == IF path[TempFile] = 0 THEN FreeInode(path, thr)
                       ELSE path[TempFile]
              IN /\ path' = [path EXCEPT ![TempFile] = n]
                 /\ content' = [content EXCEPT ![n] = <<>>]
                 /\ thr' = [thr EXCEPT ![c] =
                        [@ EXCEPT !.pc = "s_write", !.fd = n, !.pos = 0]]
            ELSE /\ thr' = [thr EXCEPT ![c] = Returned(@, OnSaveError)]
                 /\ UNCHANGED <<path, content>>
    /\ UNCHANGED <<config, context, loaded_data, srv_pc, last_data,
                   save_thread, stop_event, api_pc, trace, load_seen,
                   last_written, writes>>
    /\ UNCHANGED calls

\* line 111: json.dump writes the next chunk; the file is closed after the
\* last one, and when a write raises
SaveWrite(c) ==
    /\ thr[c].pc = "s_write"
    /\ \E io_ok \in IoOutcomes :
         /\ Fault(io_ok)
         /\ IF io_ok
            THEN LET k == thr[c].pos + 1
                  th == [thr EXCEPT ![c] =
                           IF k = WriteChunks
                           THEN [@ EXCEPT !.pc = "s_replace", !.fd = 0, !.pos = 0]
                           ELSE [@ EXCEPT !.pos = k]]
                  ct == [content EXCEPT ![thr[c].fd] =
                           WriteAt(@, k, Chunk(JsonDump(thr[c].data), k))]
              IN /\ thr' = th
                 /\ content' = Collect(path, th, ct)
            ELSE LET th == [thr EXCEPT ![c] = Returned(@, OnSaveError)]
                 IN /\ thr' = th
                    /\ content' = Collect(path, th, content)
    /\ UNCHANGED <<config, path, context, loaded_data, srv_pc, last_data,
                   save_thread, stop_event, api_pc, trace, load_seen,
                   last_written, writes>>
    /\ UNCHANGED calls

\* lines 114-118: os.replace(temp_file, persistence_file), then the cache
SaveReplace(c) ==
    /\ thr[c].pc = "s_replace"
    /\ \E io_ok \in IoOutcomes :
         LET replaced == io_ok /\ path[TempFile] # 0
             p == IF replaced /\ TempFile # "file"
                  THEN [file |-> path[TempFile], tmp |-> 0]
                  ELSE path
             th == [thr EXCEPT ![c] =
                      [Returned(@, IF replaced THEN "True" ELSE OnSaveError)
                          EXCEPT !.wrote = replaced]]
         IN /\ Fault(io_ok)
            /\ path' = p
            /\ thr' = th
            /\ content' = Collect(p, th, content)
            /\ last_data' = LastDataAfterReplace(replaced, thr[c].data, last_data)
            /\ last_written' = IF replaced THEN thr[c].data ELSE last_written
    /\ UNCHANGED <<config, context, loaded_data, srv_pc, save_thread,
                   stop_event, api_pc, trace, load_seen, writes>>
    /\ UNCHANGED calls

\* a call of save_registers by caller c begins
BeginSave(rec, mode) ==
    [rec EXCEPT !.pc = "s_begin", !.mode = mode, !.ret = "none",
                !.before = IF api_pc = "off" THEN FileChunks(path, content)
                           ELSE <<>>,
                !.wrote = FALSE,
                !.nfinal = IF mode = "final" THEN @ + 1 ELSE @]

\* ------------------------------------------------------------------------
\* save_loop, run by thread t
\* ------------------------------------------------------------------------
\* (a save_loop that does not look at the stop event)
SaveLoopForever(stop) == "periodic"

\* lines 178-182: the save the loop goes on with after the wait
SaveLoopNext(stop) == IF stop THEN "final" ELSE "periodic"

\* line 178: _stop_event.wait(save_interval) returns True at once when the
\* event is set (then lines 180-182: the final save), and False when the
\* interval has elapsed (then line 179: a periodic save)
SaveLoopWait(t) ==
    /\ thr[t].pc = "wait"
    /\ thr' = [thr EXCEPT ![t] = BeginSave(@, SaveLoopNext(stop_event))]
    /\ UNCHANGED <<config, path, content, context, loaded_data, srv_pc,
                   last_data, save_thread, stop_event, api_pc, trace,
                   load_seen, last_written, writes, faults>>
    /\ UNCHANGED calls

\* a step of thread t
ThreadStep(t) ==
    SaveLoopWait(t) \/ SaveBegin(t) \/ SaveOpen(t) \/ SaveWrite(t) \/ SaveReplace(t)

\* ------------------------------------------------------------------------
\* start_auto_save
\* ------------------------------------------------------------------------
\* lines 185-186: the thread object created by start_auto_save
Ended(rec) == rec.pc \in {"none", "done"}
NewThread(th) ==
    CHOOSE t \in AutoThreads :
        Ended(th[t]) /\ \A u \in AutoThreads : Ended(th[u]) => t <= u

\* lines 168-186: thr and _save_thread after start_auto_save
StartAutoSave(th, st) ==
    IF st # 0 THEN <<th, st>>
    ELSE <<[th EXCEPT ![NewThread(th)] = [NoThread EXCEPT !.pc = "wait"]],
           NewThread(th)>>

\* (a run_server that goes on when load_registers raised)
AfterLoadContinue(result) == "context"

\* ------------------------------------------------------------------------
\* run_server
\* ------------------------------------------------------------------------
\* lines 82-84: an exception of load_registers leaves run_server
AfterLoad(result) == IF result.ok THEN "context" ELSE "aborted"

\* the end of the process: its threads are daemon threads and end with it,
\* its open files are closed
ProcessExit(th) == [c \in Callers |-> NoThread]

\* lines 76-82: with persistence enabled, load the snapshot
RunServerLoad ==
    /\ srv_pc = "start"
    /\ IF config.persistence
       THEN \E readable \in (IF path["file"] # 0 THEN IoOutcomes ELSE {TRUE}) :
              LET exists == path["file"] # 0
                  r == LoadRegisters(exists, readable, FileChunks(path, content))
              IN /\ Fault(readable)
                 /\ loaded_data' = IF r.ok THEN r.val ELSE PyNone
                 /\ srv_pc' = AfterLoad(r)
                 /\ trace' = Append(trace, IF r.ok THEN "load" ELSE "load_raised")
                 /\ load_seen' = [exists |-> exists, readable |-> readable,
                                  chunks |-> FileChunks(path, content),
                                  result |-> r, done |-> TRUE]
       ELSE /\ loaded_data' = PyNone
            /\ srv_pc' = "context"
            /\ UNCHANGED <<trace, load_seen, faults>>
    /\ UNCHANGED <<config, path, content, context, last_data, save_thread,
                   stop_event, thr, api_pc, last_written, writes>>
    /\ UNCHANGED calls

\* lines 84-87: build the device context
RunServerContext ==
    /\ srv_pc = "context"
    /\ LET r == GetModbusDeviceContext(loaded_data, config)
       IN IF r.ok
          THEN /\ context' = r.val
               /\ srv_pc' = "autosave"
               /\ trace' = Append(trace, "context")
          ELSE /\ srv_pc' = "aborted"
               /\ trace' = Append(trace, "context_raised")
               /\ UNCHANGED context
    /\ UNCHANGED <<config, path, content, loaded_data, last_data,
                   save_thread, stop_event, thr, api_pc, load_seen,
                   last_written, writes, faults>>
    /\ UNCHANGED calls

\* lines 90-94: a RegisterPersistence on the real context, start_auto_save
RunServerAutoSave ==
    /\ srv_pc = "autosave"
    /\ IF config.persistence
       THEN /\ last_data' = PyNone
            /\ stop_event' = FALSE
            /\ thr' = StartAutoSave(thr, 0)[1]
            /\ save_thread' = StartAutoSave(thr, 0)[2]
            /\ trace' = Append(trace, "autosave")
       ELSE UNCHANGED <<last_data, stop_event, thr, save_thread, trace>>
    /\ srv_pc' = "listen"
    /\ UNCHANGED <<config, path, content, context, loaded_data, api_pc,
                   load_seen, last_written, writes, faults>>
    /\ UNCHANGED calls

\* lines 112-127: the listener is started and serves; loaded_data is not
\* read any more
RunServerListen ==
    /\ srv_pc = "listen"
    /\ srv_pc' = "serving"
    /\ trace' = Append(trace, "listen")
    /\ loaded_data' = PyNone
    /\ load_seen' = NoLoad
    /\ UNCHANGED <<config, path, content, context, last_data,
                   save_thread, stop_event, thr, api_pc,
                   last_written, writes, faults>>
    /\ UNCHANGED calls

\* validate(address, 1) of a block: the address is one the block holds
Validate(block, a) == a \in DOMAIN block.values

\* setValues(address, [value]) of a block
SetValues(block, a, val) == [block EXCEPT !.values[a] = val]

\* the values a client can write: a bit to a coil, a word to a holding
\* register (discrete inputs and input registers are read-only)
Writable == {"c", "h"}
WriteValues(b) ==
    IF b = "c" THEN {PyBool(FALSE), PyBool(TRUE)}
    ELSE {PyInt(n) : n \in 0..WordMax}

\* the listener executes a write-single request (function codes 5 and 6);
\* a is the address in the block
WriteSingle(b, a, val) ==
    /\ writes < MaxWrites
    /\ Validate(context[b], a)
    /\ context' = [context EXCEPT ![b] = SetValues(@, a, val)]
    /\ writes' = writes + 1

ClientWrite ==
    /\ srv_pc = "serving"
    /\ \E b \in Writable : \E a \in 0..(NumAddr - 1) : \E val \in WriteValues(b) :
          WriteSingle(b, a, val)
    /\ UNCHANGED <<config, path, content, loaded_data, srv_pc, last_data,
                   save_thread, stop_event, thr, api_pc, trace, load_seen,
                   last_written, faults>>
    /\ UNCHANGED calls

\* lines 112-127: the listener call returns or is interrupted; run_server
\* returns and the process ends
RunServerReturn ==
    /\ srv_pc = "serving"
    /\ srv_pc' = "ended"
    /\ thr' = ProcessExit(thr)
    /\ content' = Collect(path, ProcessExit(thr), content)
    /\ UNCHANGED <<config, path, context, loaded_data, last_data,
                   save_thread, stop_event, api_pc, trace, load_seen,
                   last_written, writes, faults>>
    /\ UNCHANGED calls

\* ------------------------------------------------------------------------
\* Inputs: configurations and the persistence file found at the first start
\* ------------------------------------------------------------------------
Item(k, v) == <<PyStr(k), v>>

RegisterConfigs ==
    { PyDict(<<>>),
      PyDict(<<Item("discreteInput", PyDict(<<Item("0x1", PyInt(1))>>)),
               Item("coils", PyDict(<<Item("0", PyBool(TRUE))>>)),
               Item("holdingRegister", PyDict(<<Item("1", PyStr("0x1"))>>)),
               Item("inputRegister", PyDict(<<Item("0", PyInt(WordMax))>>))>>) }

Configs ==
    [registers : RegisterConfigs,
     initializeUndefinedRegisters : BOOLEAN,
     persistence : BOOLEAN]

\* documents a persistence file may hold
FileDocs ==
    { PyNone,
      PyDict(<<Item("holding_registers", PyDict(<<Item("1", PyInt(WordMax))>>))>>),
      PyDict(<<Item("holding_registers",
                    PyDict(<<Item("0", PyInt(WordMax + 1)), Item("1", PyInt(1))>>))>>) }

\* the chunks of the persistence file at the first start: no file, a
\* complete document, or a file cut short
InitialFiles ==
    {<<>>} \cup {FileOf(d) : d \in FileDocs}
           \cup {<<Chunk(PyDict(<<>>), 1)>>}

Init ==
    /\ config \in Configs
    /\ \E f \in InitialFiles :
         /\ path = [file |-> IF f = <<>> THEN 0 ELSE 1, tmp |-> 0]
         /\ content = [n \in Inodes |-> IF n = 1 THEN f ELSE <<>>]
    /\ context = NoContext
    /\ loaded_data = PyNone
    /\ srv_pc = "start"
    /\ last_data = PyNone
    /\ save_thread = 0
    /\ stop_event = FALSE
    /\ thr = [c \in Callers |-> NoThread]
    /\ api_pc = "off"
    /\ trace = <<>>
    /\ load_seen = NoLoad
    /\ last_written = PyNone
    /\ writes = 0
    /\ faults = 0
    /\ CallsIdle

Next ==
    \/ RunServerLoad
    \/ RunServerContext
    \/ RunServerAutoSave
    \/ RunServerListen
    \/ ClientWrite
    \/ RunServerReturn
    \/ \E t \in AutoThreads : SaveLoopWait(t)
    \/ \E t \in AutoThreads : SaveBegin(t)
    \/ \E t \in AutoThreads : SaveOpen(t)
    \/ \E t \in AutoThreads : SaveWrite(t)
    \/ \E t \in AutoThreads : SaveReplace(t)

Spec == Init /\ [][Next]_vars

\* ------------------------------------------------------------------------
\* A RegisterPersistence object on a served device context, its methods
\* called by one more thread (caller 0) while its auto-save threads run
\* ------------------------------------------------------------------------
\* the caller is in no call
ApiFree == api_pc # "join" /\ thr[0].pc \in {"none", "idle"}

\* lines 168-186: start_auto_save
ApiStartAutoSave ==
    /\ ApiFree
    /\ save_thread # 0 \/ \E t \in AutoThreads : Ended(thr[t])
    /\ thr' = StartAutoSave(thr, save_thread)[1]
    /\ save_thread' = StartAutoSave(thr, save_thread)[2]
    /\ UNCHANGED <<config, path, content, context, loaded_data, srv_pc,
                   last_data, stop_event, api_pc, trace, load_seen, last_written,
                   writes, faults>>
    /\ UNCHANGED calls

\* lines 188-196: stop_auto_save returns at once when no thread is
\* registered, and sets the event otherwise
ApiStopAutoSave ==
    /\ ApiFree
    /\ IF save_thread = 0
       THEN UNCHANGED <<api_pc, stop_event>>
       ELSE api_pc' = "join" /\ stop_event' = TRUE
    /\ UNCHANGED <<config, path, content, context, loaded_data, srv_pc,
                   last_data, save_thread, thr, trace, load_seen,
                   last_written, writes, faults>>
    /\ UNCHANGED calls

\* lines 197-198: join(timeout=5) returns when the thread has ended or the
\* five seconds are over, whichever is first; then _save_thread = None
ApiStopJoin ==
    /\ api_pc = "join"
    /\ save_thread' = 0
    /\ api_pc' = "idle"
    /\ UNCHANGED <<config, path, content, context, loaded_data, srv_pc,
                   last_data, stop_event, thr, trace, load_seen,
                   last_written, writes, faults>>
    /\ UNCHANGED calls

\* the caller calls save_registers
ApiSaveRegisters ==
    /\ ApiFree
    /\ thr' = [thr EXCEPT ![0] = BeginSave(@, "manual")]
    /\ UNCHANGED <<config, path, content, context, loaded_data, srv_pc,
                   last_data, save_thread, stop_event, api_pc, trace,
                   load_seen, last_written, writes, faults>>
    /\ UNCHANGED calls

\* the object's configuration: persistence enabled, dense banks
ApiConfig ==
    [registers |-> PyDict(<<>>), initializeUndefinedRegisters |-> FALSE,
     persistence |-> TRUE]

\* lines 40-61: the object after __init__, no persistence file yet; no
\* input/output errors in these runs
InitApi ==
    /\ config = ApiConfig
    /\ path = [file |-> 0, tmp |-> 0]
    /\ content = [n \in Inodes |-> <<>>]
    /\ context = GetModbusDeviceContext(PyNone, ApiConfig).val
    /\ loaded_data = PyNone
    /\ srv_pc = "serving"
    /\ last_data = PyNone
    /\ save_thread = 0
    /\ stop_event = FALSE
    /\ thr = [c \in Callers |-> NoThread]
    /\ api_pc = "idle"
    /\ trace = <<>>
    /\ load_seen = NoLoad
    /\ last_written = PyNone
    /\ writes = 0
    /\ faults = MaxFaults
    /\ CallsIdle

\* start_auto_save and stop_auto_save called in any order, on a context
\* that no client writes to
NextApi ==
    \/ ApiStartAutoSave
    \/ ApiStopAutoSave
    \/ ApiStopJoin
    \/ \E t \in AutoThreads : SaveLoopWait(t)
    \/ \E t \in AutoThreads : SaveBegin(t)
    \/ \E t \in AutoThreads : SaveOpen(t)
    \/ \E t \in AutoThreads : SaveWrite(t)
    \/ \E t \in AutoThreads : SaveReplace(t)

\* a thread that is started runs
SpecApi ==
    /\ InitApi
    /\ [][NextApi]_vars
    /\ \A t \in AutoThreads : WF_vars(ThreadStep(t))

\* save_registers called while the auto-save thread runs
NextSave ==
    \/ ApiStartAutoSave
    \/ ApiSaveRegisters
    \/ ClientWrite
    \/ \E t \in AutoThreads : SaveLoopWait(t)
    \/ \E c \in Callers : SaveBegin(c)
    \/ \E c \in Callers : SaveOpen(c)
    \/ \E c \in Callers : SaveWrite(c)
    \/ \E c \in Callers : SaveReplace(c)

SpecSave == InitApi /\ [][NextSave]_vars

\* lines 90-94 of run_server: the auto-save thread of a started object runs
\* on the served context; no input/output errors, no other caller, and the
\* process goes on
InitLive ==
    /\ config \in {c \in Configs : c.persistence}
    /\ path = [file |-> 0, tmp |-> 0]
    /\ content = [n \in Inodes |-> <<>>]
    /\ context = GetModbusDeviceContext(PyNone, config).val
    /\ loaded_data = PyNone
    /\ srv_pc = "serving"
    /\ last_data = PyNone
    /\ thr = StartAutoSave([c \in Callers |-> NoThread], 0)[1]
    /\ save_thread = StartAutoSave([c \in Callers |-> NoThread], 0)[2]
    /\ stop_event = FALSE
    /\ api_pc = "idle"
    /\ trace = <<>>
    /\ load_seen = NoLoad
    /\ last_written = PyNone
    /\ writes = 0
    /\ faults = MaxFaults
    /\ CallsIdle

NextLive ==
    \/ ClientWrite
    \/ \E t \in AutoThreads : SaveLoopWait(t)
    \/ \E t \in AutoThreads : SaveBegin(t)
    \/ \E t \in AutoThreads : SaveOpen(t)
    \/ \E t \in AutoThreads : SaveWrite(t)
    \/ \E t \in AutoThreads : SaveReplace(t)

\* the interval of the wait elapses and the thread runs
SpecLive ==
    /\ InitLive
    /\ [][NextLive]_vars
    /\ \A t \in AutoThreads : WF_vars(ThreadStep(t))

\* ------------------------------------------------------------------------
\* Properties of the persistence round trip and of run_server
\* ------------------------------------------------------------------------
Range(seq) == {seq[i] : i \in 1..Len(seq)}

\* save_registers on ctx, then a restart: load_registers of the file
\* written, then _get_modbus_device_context
RoundTrip(ctx) ==
    LET r == LoadRegisters(TRUE, TRUE, FileOf(JsonDump(SnapshotData(ctx))))
    IN IF r.ok THEN GetModbusDeviceContext(r.val, config) ELSE r

\* two device contexts answer every address of every bank alike
SameAnswers(c1, c2) ==
    \A b \in Banks :
        \A a \in (0..(NumAddr - 1)) \cup DOMAIN c1[b].values \cup DOMAIN c2[b].values :
            Answer(c1[b], a) = Answer(c2[b], a)

\* C1: for every reachable state of the four banks, save_registers followed
\* by a restart (load_registers, _get_modbus_device_context) gives a device
\* context that answers every address of every bank as before the save
C1_RoundTrip ==
    (config.persistence /\ context # NoContext) =>
        /\ RoundTrip(context).ok
        /\ SameAnswers(RoundTrip(context).val, context)

\* the items of two dumped dicts are equal (Python's == on the values)
ItemsEq(s1, s2) ==
    /\ Len(s1) = Len(s2)
    /\ \A n \in 1..Len(s1) : s1[n][1] = s2[n][1] /\ PyEq(s1[n][2], s2[n][2])

\* the persistence file is one complete snapshot of data
FileHolds(data) ==
    /\ path["file"] # 0
    /\ LET r == JsonLoad(FileChunks(path, content))
       IN /\ r.ok
          /\ r.val.t = "dict"
          /\ \A b \in Banks :
                /\ DictGet(r.val, SnapshotKey[b]).t = "dict"
                /\ ItemsEq(DictGet(r.val, SnapshotKey[b]).v, DumpItems(data[b]))

\* C9: when the server run with persistence enabled has shut down, the
\* live register state has been flushed: every write accepted before the
\* shutdown is in the persistence file
C9_FinalFlush ==
    (srv_pc = "ended" /\ config.persistence /\ writes > 0)
        => FileHolds(SnapshotData(context))

\* the value an item of a snapshot denotes for a bank of init_type
Denoted(val, init_type) ==
    IF init_type = "boolean" THEN (IF val.v # 0 THEN 1 ELSE 0) ELSE val.v

\* the block holds the item <<key, value>> of the snapshot
EntryHeld(block, init_type, item) ==
    /\ KeyOut(item[1]).ok
    /\ KeyOut(item[1]).val \in DOMAIN block.values
    /\ IsInstanceInt(item[2])
    /\ block.values[KeyOut(item[1]).val].v = Denoted(item[2], init_type)

\* every entry recorded in the document is held by the banks
EntriesHeld(doc, ctx) ==
    doc.t = "dict" =>
        \A b \in Banks :
            LET bank == DictGet(doc, SnapshotKey[b])
            IN bank.t = "dict" =>
                 \A n \in 1..Len(bank.v) : EntryHeld(ctx[b], InitType[b], bank.v[n])

\* C7: when a persistence file exists at start-up, the server starts only
\* with banks that hold every entry recorded in that file (or does not
\* start at all)
C7_SnapshotHonoured ==
    (srv_pc \in {"autosave", "listen"} /\ config.persistence
        /\ load_seen.done /\ load_seen.exists)
        => /\ JsonLoad(load_seen.chunks).ok
           /\ EntriesHeld(JsonLoad(load_seen.chunks).val, context)

\* trace[i] comes after an earlier step e
After(i, e) == \E j \in 1..(i - 1) : trace[j] = e

\* C6: with persistence enabled the snapshot is loaded before the device
\* context is built, the auto-save thread and the listener are started only
\* after the context is built, and when loading raises run_server aborts:
\* no auto-save thread and no listener is started
C6_StartupOrder ==
    /\ \A i \in 1..Len(trace) :
          /\ (trace[i] = "context" /\ config.persistence) => After(i, "load")
          /\ trace[i] = "autosave" => After(i, "context")
          /\ trace[i] = "listen" => After(i, "context")
          /\ (trace[i] = "listen" /\ config.persistence) => After(i, "autosave")
    /\ "load_raised" \in Range(trace) =>
          /\ srv_pc = "aborted"
          /\ Range(trace) = {"load_raised"}
          /\ \A t \in AutoThreads : thr[t].pc = "none"
    /\ (\E t \in AutoThreads : thr[t].pc # "none") => "autosave" \in Range(trace)
    /\ srv_pc = "serving" => "listen" \in Range(trace)

C6_Witness ==
    /\ srv_pc = "serving"
    /\ trace = <<"load", "context", "autosave", "listen">>
    /\ thr[1].pc = "s_write"

SaveStepOf(c) ==
    /\ thr[c].pc \in {"s_open", "s_write", "s_replace"}
    /\ thr'[c] # thr[c]
    /\ thr'[c].pc # "none"

\* the step of c raises: an I/O error, or no temp file left to rename
StepRaises(c) ==
    \/ faults' > faults
    \/ thr[c].pc = "s_replace" /\ path[TempFile] = 0

\* C2: whenever a step of save_registers fails (opening the temp file,
\* writing the document, the rename) the call returns False without
\* raising, its caller goes on, and the persistence file holds exactly
\* what it held when the call began
C2_SaveFailure ==
    [][\A c \in Callers :
          (SaveStepOf(c) /\ StepRaises(c)) =>
              /\ thr'[c].ret = "False"
              /\ thr'[c].pc = AfterSave(thr[c].mode)
              /\ FileChunks(path', content') = thr[c].before]_vars

C2_Witness ==
    /\ thr[1].ret = "False"
    /\ thr[1].pc = "wait"
    /\ path["file"] # 0
    /\ last_written # PyNone
    /\ ~DataEq(SnapshotData(context), last_written)
    /\ FileHolds(last_written)

\* C3: save_registers returns True without touching any file (no temp
\* file, no rename) whenever the snapshot it computes equals the snapshot
\* of the last successful write of the object, and goes on to write the
\* file whenever it differs, the first save included
C3_SkipUnchanged ==
    [][\A c \in Callers :
          (thr[c].pc = "s_begin" /\ thr'[c].pc \notin {"s_begin", "none"}) =>
              IF DataEq(SnapshotData(context), last_written)
              THEN /\ thr'[c].ret = "True"
                   /\ thr'[c].pc = AfterSave(thr[c].mode)
                   /\ path' = path
                   /\ content' = content
              ELSE /\ thr'[c].pc = "s_open"
                   /\ thr'[c].data = SnapshotData(context)]_vars

C3_Witness ==
    /\ thr[1].pc = "wait"
    /\ thr[1].ret = "True"
    /\ ~thr[1].wrote
    /\ last_written # PyNone
    /\ FileHolds(last_written)

\* ------------------------------------------------------------------------
\* Properties of overlapping calls and of the auto-save thread
\* ------------------------------------------------------------------------
\* C4: at every instant, whatever the interleaving of the auto-save thread
\* and another caller of save_registers, the persistence file does not
\* exist or holds one complete snapshot, and no ".tmp" file is left behind
\* by the writes that are over
C4_AtomicWrites ==
    /\ path["file"] = 0 \/ JsonLoad(FileChunks(path, content)).ok
    /\ path["tmp"] # 0 => \E c \in Callers : thr[c].pc \in {"s_write", "s_replace"}

\* the auto-save threads that are alive
Alive == {t \in AutoThreads : ~Ended(thr[t])}

\* C10: under any sequence of start_auto_save and stop_auto_save calls at
\* most one auto-save thread is alive at any time
C10_OneThread == Cardinality(Alive) <= 1

\* C8: once stop_auto_save has set the event, every auto-save thread that
\* is alive leaves its loop and terminates, having performed exactly one
\* final save_registers, however far it is in its interval; when
\* stop_auto_save returns _save_thread is None; and stop_auto_save on an
\* object with no registered thread does nothing
C8_StopFinalSave ==
    /\ [](\A t \in AutoThreads :
            /\ thr[t].nfinal <= 1
            /\ thr[t].pc = "done" => thr[t].nfinal = 1
            /\ thr[t].mode = "final" => stop_event)
    /\ \A t \in AutoThreads :
          (stop_event /\ ~Ended(thr[t])) ~> (thr[t].pc = "done" /\ thr[t].nfinal = 1)
    /\ [][/\ (api_pc = "join" /\ api_pc' # "join") => save_thread' = 0
          /\ (api_pc # "join" /\ api_pc' = "join") => save_thread # 0
          /\ stop_event' # stop_event => (save_thread # 0 /\ api_pc' = "join")]_vars

C8_Witness ==
    /\ api_pc = "idle"
    /\ stop_event
    /\ save_thread = 0
    /\ thr[1].pc = "done"
    /\ thr[1].nfinal = 1
    /\ thr[1].wrote
    /\ FileHolds(SnapshotData(context))

\* C11: while the auto-save thread runs and the file writes succeed, a
\* register state that is not in the persistence file leads to the file
\* holding the register state, with no save call by the application
C11_AutoSaveLive ==
    (~FileHolds(SnapshotData(context))) ~> FileHolds(SnapshotData(context))

C11_Witness ==
    /\ writes > 0
    /\ thr[1].pc = "wait"
    /\ thr[1].wrote
    /\ FileHolds(SnapshotData(context))

\* ------------------------------------------------------------------------
\* _prepare_register called on its own
\* ------------------------------------------------------------------------
\* keys of a register mapping: decimal and hexadecimal strings, a string
\* that is no numeral, an address beyond the address space, an int
PrepKeys ==
    {PyStr("0"), PyStr("1"), PyStr("0x1"), PyStr("0xZ"), PyStr(Str(NumAddr)),
     PyInt(0)}

\* values of a register mapping
PrepVals ==
    {PyInt(0), PyInt(WordMax), PyInt(WordMax + 1), PyBool(TRUE),
     PyStr("0x1"), PyStr("0x00001"), PyStr("abc")}

\* register mappings of up to two items with distinct keys, and a value
\* that is no mapping
PrepRegisters ==
    {PyNone, PyDict(<<>>)}
        \cup {PyDict(<<(<<k, v>>)>>) : k \in PrepKeys, v \in PrepVals}
        \cup {PyDict(<<(<<PyStr("0x1"), v>>), (<<k, w>>)>>) :
                 k \in {PyStr("0"), PyStr("1")}, v \in PrepVals, w \in PrepVals}

InitPrepare ==
    /\ config = ApiConfig
    /\ path = [file |-> 0, tmp |-> 0]
    /\ content = [n \in Inodes |-> <<>>]
    /\ context = NoContext
    /\ loaded_data = PyNone
    /\ srv_pc = "off"
    /\ last_data = PyNone
    /\ save_thread = 0
    /\ stop_event = FALSE
    /\ thr = [c \in Callers |-> NoThread]
    /\ api_pc = "off"
    /\ trace = <<>>
    /\ load_seen = NoLoad
    /\ last_written = PyNone
    /\ writes = 0
    /\ faults = 0
    /\ net = NoNet
    /\ tel = NoTel
    /\ RestIdle
    /\ \E r \in PrepRegisters : \E ty \in {"word", "boolean"} : \E init \in BOOLEAN :
          prep = [register |-> r, init_type |-> ty, init |-> init,
                  done |-> FALSE, out |-> <<>>]

\* lines 259-336: the call returns or raises
PrepareCall ==
    /\ ~prep.done
    /\ prep.init_type # "none"
    /\ prep' = [prep EXCEPT !.done = TRUE,
                   !.out = PrepareRegister(prep.register, prep.init_type, prep.init)]
    /\ UNCHANGED <<config, path, content, context, loaded_data, srv_pc,
                   last_data, save_thread, stop_event, thr, api_pc, trace,
                   load_seen, last_written, writes, faults, net, tel, rest>>

SpecPrepare == InitPrepare /\ [][PrepareCall]_vars

\* the address a key of the mapping stands for (-1: none)
AddressOf(key) == IF KeyOut(key).ok THEN KeyOut(key).val ELSE -1

\* the value is one the bank can be configured with
WellFormedValue(val, init_type) ==
    IF init_type = "word"
    THEN \/ IsInstanceInt(val) /\ 0 <= val.v /\ val.v <= WordMax
         \/ val.t = "str" /\ val.v \in HexStr /\ StrLen(val.v) <= 6
              /\ IntBase16(val.v).ok
    ELSE val.t \in {"bool", "int"}

\* the value a well-formed configured value stands for
Configured(val, init_type) ==
    IF init_type = "word"
    THEN (IF val.t = "str" THEN PyInt(IntBase16(val.v).val) ELSE val)
    ELSE PyBool(val.v # 0)

\* the items of the call's mapping
PrepItems == IF prep.register.t = "dict" THEN prep.register.v ELSE <<>>

\* item n is the one that counts for its address: well-formed, with no
\* later item for the same address
Counts(n) ==
    /\ AddressOf(PrepItems[n][1]) \in 0..(NumAddr - 1)
    /\ WellFormedValue(PrepItems[n][2], prep.init_type)
    /\ \A m \in (n + 1)..Len(PrepItems) :
          AddressOf(PrepItems[m][1]) # AddressOf(PrepItems[n][1])

\* the default of the bank
DefaultOf(init_type) == IF init_type = "word" THEN PyInt(0) ELSE PyBool(FALSE)

\* C13: with initialize_undefined_registers=True the result is fully dense
\* for every input mapping: one entry for each address of the address
\* space and no other, a configured address holding its configured value
\* and every other address the default
C13_DenseFill ==
    (prep.done /\ prep.init /\ prep.register.t = "dict") =>
        /\ prep.out.ok
        /\ DOMAIN prep.out.val = 0..(NumAddr - 1)
        /\ \A a \in 0..(NumAddr - 1) :
              IF \E n \in 1..Len(PrepItems) : Counts(n) /\ AddressOf(PrepItems[n][1]) = a
              THEN \A n \in 1..Len(PrepItems) :
                     (Counts(n) /\ AddressOf(PrepItems[n][1]) = a) =>
                        prep.out.val[a] = Configured(PrepItems[n][2], prep.init_type)
              ELSE prep.out.val[a] = DefaultOf(prep.init_type)

\* the value lies in the domain of the bank
InDomain(val, init_type) ==
    IF init_type = "boolean" THEN val.t = "bool"
    ELSE IsInstanceInt(val) /\ 0 <= val.v /\ val.v <= WordMax

\* C14: every value of the mapping returned is a boolean when init_type is
\* "boolean" and an integer of the word range when it is "word"; an entry
\* whose value cannot be brought into that domain is skipped (the call
\* does not raise) and is not stored
C14_ValueDomain ==
    (prep.done /\ prep.register.t = "dict"
        /\ \A n \in 1..Len(PrepItems) : KeyOut(PrepItems[n][1]).ok) =>
        /\ prep.out.ok
        /\ \A a \in DOMAIN prep.out.val : InDomain(prep.out.val[a], prep.init_type)

\* C15: with initialize_undefined_registers=False the result holds exactly
\* the well-formed configured entries: the address of a string key parsed
\* as decimal or 0x hexadecimal, a "0x.." word parsed to its integer, a
\* boolean given as an integer mapped to False for 0 and True otherwise
C15_SparseEntries ==
    (prep.done /\ ~prep.init /\ prep.register.t = "dict"
        /\ \A n \in 1..Len(PrepItems) : KeyOut(PrepItems[n][1]).ok) =>
        /\ prep.out.ok
        /\ DOMAIN prep.out.val =
              {AddressOf(PrepItems[n][1]) : n \in
                  {m \in 1..Len(PrepItems) :
                      WellFormedValue(PrepItems[m][2], prep.init_type)}}
        /\ \A n \in 1..Len(PrepItems) :
              (WellFormedValue(PrepItems[n][2], prep.init_type)
                  /\ \A m \in (n + 1)..Len(PrepItems) :
                        AddressOf(PrepItems[m][1]) # AddressOf(PrepItems[n][1]))
                => prep.out.val[AddressOf(PrepItems[n][1])]
                      = Configured(PrepItems[n][2], prep.init_type)

\* ------------------------------------------------------------------------
\* Start-up of run_server on a partial snapshot
\* ------------------------------------------------------------------------
\* well-formed snapshots with entries for some banks and addresses only
SeedDocs ==
    { PyDict(<<Item("holding_registers", PyDict(<<Item("1", PyInt(WordMax))>>))>>),
      PyDict(<<Item("holding_registers",
                    PyDict(<<Item("0", PyInt(0)), Item("1", PyInt(1))>>))>>),
      PyDict(<<Item("input_registers", PyDict(<<Item("0", PyInt(WordMax))>>))>>),
      PyDict(<<Item("coils", PyDict(<<Item("0", PyBool(TRUE))>>))>>),
      PyDict(<<Item("coils", PyDict(<<Item("1", PyBool(FALSE))>>))>>),
      PyDict(<<Item("discrete_inputs", PyDict(<<Item("1", PyInt(1))>>))>>),
      PyDict(<<Item("coils", PyDict(<<Item("0", PyBool(TRUE))>>)),
               Item("holding_registers", PyDict(<<Item("1", PyInt(WordMax))>>))>>),
      PyDict(<<Item("discrete_inputs", PyDict(<<>>)),
               Item("coils", PyDict(<<Item("0", PyInt(1))>>)),
               Item("holding_registers", PyDict(<<>>)),
               Item("input_registers", PyDict(<<>>))>>) }

\* run_server is started with persistence enabled on a readable file
\* holding one of these snapshots
InitSeed ==
    /\ config \in {c \in Configs : c.persistence}
    /\ \E d \in SeedDocs :
         /\ path = [file |-> 1, tmp |-> 0]
         /\ content = [n \in Inodes |-> IF n = 1 THEN FileOf(d) ELSE <<>>]
    /\ context = NoContext
    /\ loaded_data = PyNone
    /\ srv_pc = "start"
    /\ last_data = PyNone
    /\ save_thread = 0
    /\ stop_event = FALSE
    /\ thr = [c \in Callers |-> NoThread]
    /\ api_pc = "off"
    /\ trace = <<>>
    /\ load_seen = NoLoad
    /\ last_written = PyNone
    /\ writes = 0
    /\ faults = MaxFaults
    /\ CallsIdle

NextSeed ==
    \/ RunServerLoad
    \/ RunServerContext
    \/ RunServerAutoSave

SpecSeed == InitSeed /\ [][NextSeed]_vars

\* the values the snapshot records for address a of bank b
SeedValues(doc, b, a) ==
    LET bank == DictGet(doc, SnapshotKey[b])
    IN {bank.v[n][2] : n \in {m \in 1..Len(bank.v) : AddressOf(bank.v[m][1]) = a}}

\* the snapshot records entries for bank b
SeedsBank(doc, b) == Len(DictGet(doc, SnapshotKey[b]).v) > 0

\* C12: after start-up on a partial snapshot every address present in the
\* snapshot reads back its snapshot value, and every other address follows
\* the default fill policy, not the configuration: 0/False under dense
\* fill and in a bank the snapshot has no entry for, and no address of the
\* bank otherwise
C12_PartialSeed ==
    (srv_pc \in {"autosave", "listen"} /\ load_seen.done /\ load_seen.exists) =>
        /\ load_seen.result.ok
        /\ \A b \in Banks : \A a \in 0..(NumAddr - 1) :
              LET doc == load_seen.result.val
                  vs == SeedValues(doc, b, a)
              IN IF vs # {}
                 THEN \A v \in vs :
                        Answer(context[b], a) = <<"value", Denoted(v, InitType[b])>>
                 ELSE IF config.initializeUndefinedRegisters \/ ~SeedsBank(doc, b)
                 THEN Answer(context[b], a) = <<"value", 0>>
                 ELSE Answer(context[b], a) = <<"exception", 2>>

C12_Witness ==
    /\ srv_pc = "listen"
    /\ load_seen.done
    /\ load_seen.result.ok
    /\ SeedValues(load_seen.result.val, "h", 1) = {PyInt(WordMax)}
    /\ Len(config.registers.v) > 0
    /\ ~config.initializeUndefinedRegisters
    /\ Answer(context["h"], 1) = <<"value", WordMax>>
    /\ Answer(context["h"], 0) = <<"exception", 2>>
    /\ Answer(context["c"], 0) = <<"value", 0>>

\* ------------------------------------------------------------------------
\* run_server from the store to the listener
\* ------------------------------------------------------------------------
\* the variables of a run of the server and of the persistence object, at
\* rest
ServerOff ==
    /\ config = ApiConfig
    /\ path = [file |-> 0, tmp |-> 0]
    /\ content = [n \in Inodes |-> <<>>]
    /\ context = NoContext
    /\ loaded_data = PyNone
    /\ srv_pc = "off"
    /\ last_data = PyNone
    /\ save_thread = 0
    /\ stop_event = FALSE
    /\ thr = [c \in Callers |-> NoThread]
    /\ api_pc = "off"
    /\ trace = <<>>
    /\ load_seen = NoLoad
    /\ last_written = PyNone
    /\ writes = 0
    /\ faults = 0

server == <<config, path, content, context, loaded_data, srv_pc, last_data,
            save_thread, stop_event, thr, api_pc, trace, load_seen,
            last_written, writes, faults>>

TlsFiles == {"cert.pem", "key.pem"}

\* CONFIG["server"] and CONFIG["registers"]["zeroMode"], and the files
\* that exist
ServerConfigs ==
    [protocol : {Absent, PyStr("TCP"), PyStr("UDP")},
     certificate : {PyNone, PyStr("cert.pem")},
     privateKey : {PyNone, PyStr("key.pem")},
     files : SUBSET TlsFiles,
     zeroMode : BOOLEAN]

InitListen ==
    /\ ServerOff
    /\ prep = NoPrep
    /\ tel = NoTel
    /\ RestIdle
    /\ \E c \in ServerConfigs : net = [NoNet EXCEPT !.pc = "start", !.cfg = c]

\* line 232: ModbusDeviceContext(di=di, co=co, hr=hr, ir=ir); the call
\* passes no zero-mode flag, so the store maps request addresses the one
\* way the library does without it (as given, or shifted by one)
BuildStore ==
    /\ net.pc = "start"
    /\ \E sh \in {0, 1} : net' = [net EXCEPT !.pc = "config", !.shift = sh]
    /\ UNCHANGED <<server, prep, tel, rest>>

\* lines 102-104: protocol = (CONFIG["server"].get("protocol", "TCP"),)
ReadListenerConfig ==
    /\ net.pc = "config"
    /\ net' = [net EXCEPT !.pc = "tls",
                  !.protocol = PyTuple(GetOr(net.cfg.protocol, PyStr("TCP")))]
    /\ UNCHANGED <<server, prep, tel, rest>>

\* os.path.isfile(p)
IsFile(p) == p.t = "str" /\ p.v \in net.cfg.files

\* lines 106-110
CheckTls ==
    /\ net.pc = "tls"
    /\ net' = [net EXCEPT !.pc = "select",
                  !.start_tls = /\ net.cfg.certificate # PyNone
                                /\ net.cfg.privateKey # PyNone
                                /\ IsFile(net.cfg.certificate)
                                /\ IsFile(net.cfg.privateKey)]
    /\ UNCHANGED <<server, prep, tel, rest>>

\* lines 112-127: the listener this run starts
Listener ==
    IF net.start_tls THEN "tls"
    ELSE IF PyEq(net.protocol, PyStr("UDP")) THEN "udp"
    ELSE "tcp"

StartListener ==
    /\ net.pc = "select"
    /\ net' = [net EXCEPT !.pc = "serving",
                  !.started = Append(net.started, Listener)]
    /\ UNCHANGED <<server, prep, tel, rest>>

\* a request for address a is looked up in the store
HandleRequest ==
    /\ net.pc = "serving"
    /\ \E a \in 0..(NumAddr - 1) :
          net' = [net EXCEPT !.request = <<a, a + net.shift>>]
    /\ UNCHANGED <<server, prep, tel, rest>>

NextListen ==
    \/ BuildStore
    \/ ReadListenerConfig
    \/ CheckTls
    \/ StartListener
    \/ HandleRequest

SpecListen == InitListen /\ [][NextListen]_vars

\* C16: a run configured for UDP without TLS starts a UDP listener, a TCP
\* listener is started only when the protocol is not UDP, and one listener
\* is started per run
C16_ListenerSelection ==
    net.pc = "serving" =>
        /\ Len(net.started) = 1
        /\ (net.cfg.protocol = PyStr("UDP") /\ ~net.start_tls) =>
               net.started = <<"udp">>
        /\ net.started = <<"tcp">> => net.cfg.protocol # PyStr("UDP")

\* C17: every request is looked up under the mapping of the configured
\* zero-mode flag: the address as given when it is on, the address shifted
\* by one when it is off
C17_ZeroMode ==
    (net.pc = "serving" /\ net.request # <<>>) =>
        IF net.cfg.zeroMode
        THEN net.request[2] = net.request[1]
        ELSE net.request[2] \in {net.request[1] + 1, net.request[1] - 1}

\* ------------------------------------------------------------------------
\* Telemetry: PrometheusMetrics and MetricsTrackingDataBlock
\* ------------------------------------------------------------------------
\* prometheus_metrics.py lines 93-102
RecordRequest(t, function_code) ==
    [t EXCEPT !.requests[function_code] = @ + 1]

\* lines 104-117
RecordRegisterRead(t, register_type, address, count) ==
    [t EXCEPT !.reads[<<register_type, address>>] = @ + count]

\* lines 119-132
RecordRegisterWrite(t, register_type, address, count) ==
    [t EXCEPT !.writes[<<register_type, address>>] = @ + count]

\* lines 134-143
RecordError(t, exception_code) ==
    [t EXCEPT !.errors[exception_code] = @ + 1]

\* (only the first address of a read is counted)
RecordReadsFirst(t, register_type, address, count) ==
    IF count <= 0 THEN t ELSE RecordRegisterRead(t, register_type, address, 1)

\* metrics_datastore.py lines 99-100: for addr in range(address, address +
\* count): record_register_read(register_type, addr, count=1)
RECURSIVE RecordReads(_, _, _, _)
RecordReads(t, register_type, address, count) ==
    IF count <= 0 THEN t
    ELSE RecordReads(RecordRegisterRead(t, register_type, address, 1),
                     register_type, address + 1, count - 1)

\* lines 125-126
RECURSIVE RecordWrites(_, _, _, _)
RecordWrites(t, register_type, address, count) ==
    IF count <= 0 THEN t
    ELSE RecordWrites(RecordRegisterWrite(t, register_type, address, 1),
                      register_type, address + 1, count - 1)

\* (a setValues that stores its first value at every address of the range)
WrappedSetRepeating(block, address, values) ==
    IF values.t = "list"
    THEN [a \in DOMAIN block |->
            IF address <= a /\ a < address + Len(values.v)
            THEN values.v[1] ELSE block[a]]
    ELSE [block EXCEPT ![address] = values.v]

\* the getValues and setValues of a wrapped block: getValues returns the
\* values the block holds in [address, address + count), in address order
WrappedGetValues(block, address, count) ==
    LET held == {a \in address..(address + count - 1) : a \in DOMAIN block}
        Nth(i) == CHOOSE a \in held : Cardinality({b \in held : b < a}) = i - 1
    IN PyList([i \in 1..Cardinality(held) |-> block[Nth(i)]])
WrappedSetValues(block, address, values) ==
    IF values.t = "list"
    THEN [a \in DOMAIN block |->
            IF address <= a /\ a < address + Len(values.v)
            THEN values.v[a - address + 1] ELSE block[a]]
    ELSE [block EXCEPT ![address] = values.v]

\* lines 76-102: getValues of the tracking block of bank register_type;
\* the counters after it, and what it returns
GetValuesRequest(t, register_type) ==
    CASE register_type = "c" -> RecordRequest(t, 1)
      [] register_type = "d" -> RecordRequest(t, 2)
      [] register_type = "h" -> RecordRequest(t, 3)
      [] register_type = "i" -> RecordRequest(t, 4)
      [] OTHER -> t

GetValues(t, register_type, address, count) ==
    LET counted == IF t.collector
                   THEN RecordReads(GetValuesRequest(t, register_type),
                                    register_type, address, count)
                   ELSE t
    IN [tel |-> counted,
        ret |-> WrappedGetValues(t.blocks[register_type], address, count)]

\* line 117: count = len(values) if isinstance(values, list) else 1
CountOf(values) == IF values.t = "list" THEN Len(values.v) ELSE 1

\* lines 118-124
SetValuesRequest(t, register_type, count) ==
    CASE register_type = "c" -> RecordRequest(t, IF count = 1 THEN 5 ELSE 15)
      [] register_type = "h" -> RecordRequest(t, IF count = 1 THEN 6 ELSE 16)
      [] OTHER -> t

\* lines 104-128: setValues of the tracking block; it returns what the
\* wrapped setValues returns, None
TrackSetValues(t, register_type, address, values) ==
    LET count == CountOf(values)
        counted == IF t.collector
                   THEN RecordWrites(SetValuesRequest(t, register_type, count),
                                     register_type, address, count)
                   ELSE t
    IN [tel |-> [counted EXCEPT !.blocks[register_type] =
                    WrappedSetValues(@, address, values)],
        ret |-> PyNone]

\* the values of a call of setValues: a list of one or two values, or one
\* value that is not in a list
SetArguments ==
    {PyList(<<1>>), PyList(<<0>>), PyList(<<1, 0>>), PyInt(1)}

\* the address ranges the wrapped block holds
FitsBlock(address, count) ==
    address \in TelAddrs /\ count >= 1 /\ address + count - 1 \in TelAddrs

\* the four banks are wrapped in tracking blocks that share one collector
InitTrack ==
    /\ ServerOff
    /\ prep = NoPrep
    /\ net = NoNet
    /\ RestIdle
    /\ tel = [NoTel EXCEPT !.collector = TRUE]

\* a call getValues(address, count) of a tracking block
GetValuesCall ==
    /\ tel.collector
    /\ tel.n < MaxCalls
    /\ \E rt \in Banks : \E address \in TelAddrs : \E count \in 1..NumAddr :
          /\ FitsBlock(address, count)
          /\ LET r == GetValues(tel, rt, address, count)
             IN tel' = [r.tel EXCEPT
                          !.n = @ + 1,
                          !.last = [op |-> "get", rt |-> rt, address |-> address,
                                    count |-> count, values |-> PyNone,
                                    result |-> r.ret,
                                    wrapped |-> WrappedGetValues(tel.blocks[rt],
                                                                 address, count)]]
    /\ UNCHANGED <<server, prep, net, rest>>

\* a call setValues(address, values) of a tracking block
SetValuesCall ==
    /\ tel.collector
    /\ tel.n < MaxCalls
    /\ \E rt \in Banks : \E address \in TelAddrs : \E values \in SetArguments :
          /\ FitsBlock(address, CountOf(values))
          /\ LET r == TrackSetValues(tel, rt, address, values)
             IN tel' = [r.tel EXCEPT
                          !.n = @ + 1,
                          !.last = [op |-> "set", rt |-> rt, address |-> address,
                                    count |-> CountOf(values), values |-> values,
                                    result |-> r.ret, wrapped |-> PyNone]]
    /\ UNCHANGED <<server, prep, net, rest>>

NextTrack ==
    \/ GetValuesCall
    \/ SetValuesCall

SpecTrack == InitTrack /\ [][NextTrack]_vars

\* the addresses of [address, address + count)
Touched(c, k) ==
    k[1] = c.rt /\ c.address <= k[2] /\ k[2] < c.address + c.count

\* counter f of the function grows by one and no other does
OnlyGrows(before, after, f) ==
    after = [before EXCEPT ![f] = @ + 1]

\* the function code of a read of the bank
ReadCode(rt) ==
    CASE rt = "c" -> 1 [] rt = "d" -> 2 [] rt = "h" -> 3 [] rt = "i" -> 4

\* what a call of getValues does to the counters, and what it returns
GetCounted(c) ==
    /\ OnlyGrows(tel.requests, tel'.requests, ReadCode(c.rt))
    /\ tel'.reads = [k \in DOMAIN tel.reads |->
                        tel.reads[k] + (IF Touched(c, k) THEN 1 ELSE 0)]
    /\ tel'.writes = tel.writes
    /\ tel'.errors = tel.errors
    /\ c.result = c.wrapped
    /\ c.result = PyList([i \in 1..c.count |->
                            tel.blocks[c.rt][c.address + i - 1]])

\* what a call of setValues does to the address counters
SetCounted(c) ==
    /\ tel'.writes = [k \in DOMAIN tel.writes |->
                         tel.writes[k] + (IF Touched(c, k) THEN 1 ELSE 0)]
    /\ tel'.reads = tel.reads
    /\ tel'.errors = tel.errors
    /\ c.result = PyNone

\* C18 as stated: getValues grows one request counter (1, 2, 3, 4 by bank)
\* and the read counter of each address of the range by one; setValues
\* grows the write counter of each address of the range by one; no other
\* counter changes; the result is the wrapped block's
C18_Counting ==
    [][tel'.n = tel.n + 1 =>
          IF tel'.last.op = "get"
          THEN GetCounted(tel'.last)
          ELSE /\ SetCounted(tel'.last)
               /\ tel'.requests = tel.requests]_vars

\* C18, amended: as above, but setValues on a coil or holding bank also
\* grows one request counter by one, a write code of that bank (5 or 15
\* for coils, 6 or 16 for holding registers); on the two other banks it
\* changes no request counter
C18_CountingAmended ==
    [][tel'.n = tel.n + 1 =>
          IF tel'.last.op = "get"
          THEN GetCounted(tel'.last)
          ELSE /\ SetCounted(tel'.last)
               /\ CASE tel'.last.rt = "c" ->
                         \E f \in {5, 15} : OnlyGrows(tel.requests, tel'.requests, f)
                    [] tel'.last.rt = "h" ->
                         \E f \in {6, 16} : OnlyGrows(tel.requests, tel'.requests, f)
                    [] OTHER -> tel'.requests = tel.requests]_vars

C18_Witness ==
    /\ tel.n = 2
    /\ tel.last.op = "get"
    /\ tel.last.rt = "h"
    /\ tel.last.address = 0
    /\ tel.last.count = 2
    /\ tel.last.result = PyList(<<1, 0>>)
    /\ tel.requests[3] = 1
    /\ tel.requests[16] = 1
    /\ tel.reads[<<"h", 0>>] = 1
    /\ tel.reads[<<"h", 1>>] = 1
    /\ tel.writes[<<"h", 0>>] = 1
    /\ tel.writes[<<"h", 1>>] = 1

\* ------------------------------------------------------------------------
\* Client requests served from tracking data blocks
\* ------------------------------------------------------------------------
\* the bank a function code addresses
BankOf(fc) ==
    CASE fc \in {1, 5, 15} -> "c"
      [] fc = 2 -> "d"
      [] fc \in {3, 6, 16} -> "h"
      [] fc = 4 -> "i"

\* the values a write request carries: one value for a single write, one
\* or two for a multiple write
RequestValues(fc) ==
    IF fc \in {5, 6} THEN {PyList(<<1>>), PyList(<<0>>)}
    ELSE {PyList(<<1>>), PyList(<<1, 0>>)}

\* a request has been received and answered with an exception response
\* (nothing on this path calls record_error)
Received(t, fc) == [t EXCEPT !.n = @ + 1, !.asked[fc] = @ + 1]
ExceptionResponse(t, code) == [t EXCEPT !.answered[code] = @ + 1]

\* the blocks are wrapped in tracking blocks, with or without a collector
InitRequests ==
    /\ ServerOff
    /\ prep = NoPrep
    /\ net = NoNet
    /\ RestIdle
    /\ \E c \in BOOLEAN : tel = [NoTel EXCEPT !.collector = c]

\* a read request (function codes 1-4): validate (lines 61-74, not
\* counted), then getValues, or an illegal-address response
RequestRead ==
    /\ tel.n < MaxCalls
    /\ \E fc \in ReadCodes : \E address \in TelAddrs : \E count \in 1..NumAddr :
          tel' = IF FitsBlock(address, count)
                 THEN Received(GetValues(tel, BankOf(fc), address, count).tel, fc)
                 ELSE ExceptionResponse(Received(tel, fc), 2)
    /\ UNCHANGED <<server, prep, net, rest>>

\* a write request (function codes 5, 6, 15, 16): validate, then setValues
\* with the values of the request
RequestWrite ==
    /\ tel.n < MaxCalls
    /\ \E fc \in WriteCodes : \E address \in TelAddrs : \E values \in RequestValues(fc) :
          tel' = IF FitsBlock(address, CountOf(values))
                 THEN Received(TrackSetValues(tel, BankOf(fc), address, values).tel, fc)
                 ELSE ExceptionResponse(Received(tel, fc), 2)
    /\ UNCHANGED <<server, prep, net, rest>>

\* a request with a function code the server does not support: it reaches
\* no data block and gets an illegal-function response
RequestUnsupported ==
    /\ tel.n < MaxCalls
    /\ tel' = ExceptionResponse([tel EXCEPT !.n = @ + 1], 1)
    /\ UNCHANGED <<server, prep, net, rest>>

NextRequests ==
    \/ RequestRead
    \/ RequestWrite
    \/ RequestUnsupported

SpecRequests == InitRequests /\ [][NextRequests]_vars

\* C19: every client request is counted once in the request counters,
\* under its own function code, whatever the number of values it carries
\* (stated for blocks that have a collector and requests that were all
\* served without an exception)
C19_RequestsCounted ==
    (tel.collector /\ \A e \in ExceptionCodes : tel.answered[e] = 0) =>
        \A f \in FunctionCodes : tel.requests[f] = tel.asked[f]

\* C20: every exception response grows the error counter of its exception
\* code by one
C20_ErrorsCounted ==
    tel.collector =>
        \A e \in ExceptionCodes : tel.errors[e] = tel.answered[e]

\* C30: every address of the mapping returned by _prepare_register lies in
\* the address space; an entry with an address outside it is not stored
C30_AddressDomain ==
    (prep.done /\ prep.out.ok) =>
        \A a \in DOMAIN prep.out.val : a \in 0..(NumAddr - 1)

\* ------------------------------------------------------------------------
\* PrometheusMetrics: the record_* calls, the gauge, reset_metrics and
\* generate_metrics
\* ------------------------------------------------------------------------
\* the value of a defaultdict(int) at a key
CounterAt(d, k) == IF k \in DOMAIN d THEN d[k] ELSE 0

\* d[k] += count
AddTo(d, k, count) ==
    [x \in (DOMAIN d) \cup {k} |-> IF x = k THEN CounterAt(d, k) + count ELSE d[x]]

\* the methods run their body under self._lock
LockIgnored(p) == TRUE
LockFree(p) == p.lock = 0

\* prometheus_metrics.py lines 74-91: the object after __init__
InitMetrics ==
    /\ ServerOff
    /\ prep = NoPrep
    /\ net = NoNet
    /\ tel = NoTel
    /\ msrv = NoMsrv
    /\ ext = NoExt
    /\ scan = NoScan
    /\ MoreIdle
    /\ prom = [NoProm EXCEPT !.pc = "on"]

others == <<server, prep, net, tel, msrv, ext, scan, more>>

\* a call is made while calls are left
CanCall == prom.pc = "on" /\ prom.n < MaxCalls /\ LockFree(prom)
Called(p, name) == [p EXCEPT !.n = @ + 1, !.last = name]

\* lines 93-102
RecordRequestCall ==
    /\ CanCall
    /\ \E function_code \in {3, 5} :
          prom' = Called([prom EXCEPT !.requests = AddTo(@, function_code, 1)],
                         "record_request")
    /\ UNCHANGED others

\* lines 104-117: count is any int
RecordRegisterReadCall ==
    /\ CanCall
    /\ \E register_type \in {"c", "h"} : \E address \in TelAddrs : \E count \in {1, -1} :
          prom' = Called([prom EXCEPT
                             !.reads = AddTo(@, <<register_type, address>>, count)],
                         "record_register_read")
    /\ UNCHANGED others

\* lines 119-132
RecordRegisterWriteCall ==
    /\ CanCall
    /\ \E address \in TelAddrs :
          prom' = Called([prom EXCEPT !.writes = AddTo(@, <<"h", address>>, 1)],
                         "record_register_write")
    /\ UNCHANGED others

\* lines 134-143
RecordErrorCall ==
    /\ CanCall
    /\ \E exception_code \in {1, 2} :
          prom' = Called([prom EXCEPT !.errors = AddTo(@, exception_code, 1)],
                         "record_error")
    /\ UNCHANGED others

\* lines 145-168: set_, increment_ and decrement_connected_clients; the
\* count of set_connected_clients is any int
ConnectedClientsCall ==
    /\ CanCall
    /\ \/ \E count \in {0, 2, -1} :
             prom' = Called([prom EXCEPT !.clients = count], "set_connected_clients")
       \/ prom' = Called([prom EXCEPT !.clients = @ + 1],
                         "increment_connected_clients")
       \/ prom' = Called([prom EXCEPT !.clients = IF @ - 1 > 0 THEN @ - 1 ELSE 0],
                         "decrement_connected_clients")
    /\ UNCHANGED others

\* lines 263-273
ResetMetrics ==
    /\ CanCall
    /\ prom' = Called([prom EXCEPT !.requests = NoCounters, !.reads = NoCounters,
                                   !.writes = NoCounters, !.errors = NoCounters,
                                   !.clients = 0],
                      "reset_metrics")
    /\ UNCHANGED others

\* lines 43-52, 55-65, 68-73: the names of the labels
FunctionCodeNames ==
    (1 :> "read_coils" @@ 2 :> "read_discrete_inputs"
       @@ 3 :> "read_holding_registers" @@ 4 :> "read_input_registers"
       @@ 5 :> "write_single_coil" @@ 6 :> "write_single_register"
       @@ 15 :> "write_multiple_coils" @@ 16 :> "write_multiple_registers")
ExceptionCodeNames ==
    (1 :> "illegal_function" @@ 2 :> "illegal_data_address"
       @@ 3 :> "illegal_data_value")
RegisterTypeNames ==
    [d |-> "discrete_input", c |-> "coil", h |-> "holding", i |-> "input"]

\* str(code).zfill(2) of a code of one or two digits
Zfill2(code) == IF code \in 0..9 THEN "0" \o Str(code) ELSE Str(code)

\* lines 179-199: _format_metric_line; a sample line is its name, its
\* labels sorted by label name, and its value
FormatMetricLine(name, value, labels) == <<name, labels, value>>

\* the "# HELP" and "# TYPE" lines of a metric, and the empty line
Header(name, kind) == << <<"# HELP", name>>, <<"# TYPE", name, kind>> >>
Blank == << <<"">> >>

\* sorted() of a set of integer keys
RECURSIVE Ascending(_)
Ascending(S) ==
    IF S = {} THEN <<>>
    ELSE LET m == CHOOSE x \in S : \A y \in S : x <= y
         IN <<m>> \o Ascending(S \ {m})

\* sorted() of the (register type, address) keys: by type, then by address
TypeOrder == <<"c", "d", "h", "i">>
PairOrder ==
    [n \in 1..(Len(TypeOrder) * NumAddr) |->
        <<TypeOrder[((n - 1) \div NumAddr) + 1], (n - 1) % NumAddr>>]
SortedPairs(d) == SelectSeq(PairOrder, LAMBDA k : k \in DOMAIN d)

\* lines 212-218
RequestLines(p) ==
    LET ks == Ascending(DOMAIN p.requests)
    IN Header("modbus_requests_total", "counter")
         \o [n \in 1..Len(ks) |->
               FormatMetricLine("modbus_requests_total", p.requests[ks[n]],
                   << <<"function_code", Zfill2(ks[n])>>,
                      <<"function_name", FunctionCodeNames[ks[n]]>> >>)]

\* lines 220-228 and 230-238
AddressLines(name, d) ==
    LET ks == SortedPairs(d)
    IN Blank \o Header(name, "counter")
         \o [n \in 1..Len(ks) |->
               FormatMetricLine(name, d[ks[n]],
                   << <<"address", Str(ks[n][2])>>,
                      <<"type", RegisterTypeNames[ks[n][1]]>> >>)]

\* lines 240-247
ErrorLines(p) ==
    LET ks == Ascending(DOMAIN p.errors)
    IN Blank \o Header("modbus_errors_total", "counter")
         \o [n \in 1..Len(ks) |->
               FormatMetricLine("modbus_errors_total", p.errors[ks[n]],
                   << <<"exception_code", Zfill2(ks[n])>>,
                      <<"exception_name", ExceptionCodeNames[ks[n]]>> >>)]

\* lines 249-260: the gauge and the uptime
GaugeLines(p) ==
    Blank \o Header("modbus_connected_clients", "gauge")
      \o << FormatMetricLine("modbus_connected_clients", p.clients, <<>>) >>
      \o Blank \o Header("modbus_server_uptime_seconds", "counter")
      \o << FormatMetricLine("modbus_server_uptime_seconds", "uptime", <<>>) >>

\* the dicts and the gauge of the object
Counters(p) ==
    [requests |-> p.requests, reads |-> p.reads, writes |-> p.writes,
     errors |-> p.errors, clients |-> p.clients]

\* lines 201-261 in one piece: the text generate_metrics returns
GenerateMetrics(p) ==
    RequestLines(p) \o AddressLines("modbus_register_reads_total", p.reads)
      \o AddressLines("modbus_register_writes_total", p.writes)
      \o ErrorLines(p) \o GaugeLines(p)

\* line 210: with self._lock (one call of generate_metrics is observed)
GenBegin ==
    /\ prom.pc = "on"
    /\ prom.gen.pc = "idle"
    /\ LockFree(prom)
    /\ prom' = [prom EXCEPT !.lock = 1,
                  !.gen = [pc |-> "requests", lines |-> <<>>, at |-> Counters(prom)]]
    /\ UNCHANGED others

\* lines 212-218
GenRequests ==
    /\ prom.gen.pc = "requests"
    /\ prom' = [prom EXCEPT !.gen.pc = "reads",
                  !.gen.lines = @ \o RequestLines(prom)]
    /\ UNCHANGED others

\* lines 220-228
GenReads ==
    /\ prom.gen.pc = "reads"
    /\ prom' = [prom EXCEPT !.gen.pc = "writes",
                  !.gen.lines = @ \o AddressLines("modbus_register_reads_total",
                                                  prom.reads)]
    /\ UNCHANGED others

\* lines 230-238
GenWrites ==
    /\ prom.gen.pc = "writes"
    /\ prom' = [prom EXCEPT !.gen.pc = "errors",
                  !.gen.lines = @ \o AddressLines("modbus_register_writes_total",
                                                  prom.writes)]
    /\ UNCHANGED others

\* lines 240-247
GenErrors ==
    /\ prom.gen.pc = "errors"
    /\ prom' = [prom EXCEPT !.gen.pc = "gauges",
                  !.gen.lines = @ \o ErrorLines(prom)]
    /\ UNCHANGED others

\* lines 249-261: the last lines; the lock is released and the text returned
GenReturn ==
    /\ prom.gen.pc = "gauges"
    /\ prom' = [prom EXCEPT !.gen.pc = "done", !.lock = 0,
                  !.gen.lines = @ \o GaugeLines(prom),
                  !.last = "generate_metrics"]
    /\ UNCHANGED others

NextMetrics ==
    \/ RecordRequestCall
    \/ RecordRegisterReadCall
    \/ RecordRegisterWriteCall
    \/ RecordErrorCall
    \/ ConnectedClientsCall
    \/ ResetMetrics
    \/ GenBegin
    \/ GenRequests
    \/ GenReads
    \/ GenWrites
    \/ GenErrors
    \/ GenReturn

SpecMetrics == InitMetrics /\ [][NextMetrics]_vars

\* the keys of the four kinds of counters
AllCounters(p) ==
    {<<"requests", k>> : k \in DOMAIN p.requests}
      \cup {<<"reads", k>> : k \in DOMAIN p.reads}
      \cup {<<"writes", k>> : k \in DOMAIN p.writes}
      \cup {<<"errors", k>> : k \in DOMAIN p.errors}

\* the value of counter c (0 for a key that is not in its dict)
ValueOf(p, c) == CounterAt(p[c[1]], c[2])

\* C21: no request, read, write or error counter ever decreases, except
\* by reset_metrics
C21_Monotone ==
    [][prom'.last # "reset_metrics" =>
          \A c \in AllCounters(prom) \cup AllCounters(prom') :
              ValueOf(prom', c) >= ValueOf(prom, c)]_vars

\* the sample lines of a metric in a text, and the value of a label
SamplesOf(lines, name) == {n \in 1..Len(lines) : lines[n][1] = name}
LabelOf(line, key) ==
    LET n == CHOOSE m \in 1..Len(line[2]) : line[2][m][1] = key
    IN line[2][n][2]

\* the text has one sample line per key of the dict, with its value
OneLinePerKey(lines, name, d, Matches(_, _)) ==
    /\ Cardinality(SamplesOf(lines, name)) = Cardinality(DOMAIN d)
    /\ \A k \in DOMAIN d :
          /\ Cardinality({n \in SamplesOf(lines, name) : Matches(lines[n], k)}) = 1
          /\ \A n \in SamplesOf(lines, name) :
                Matches(lines[n], k) => lines[n][3] = d[k]

\* C22: the text generate_metrics returns has, for every recorded function
\* code, (bank, address) and exception code, exactly one sample line, whose
\* value is the current counter, and no sample line for any other key; all
\* values are those of one instant, the one at which the call began
C22_OneInstant ==
    (prom.gen.pc = "done" /\ prom.last = "generate_metrics") =>
        LET lines == prom.gen.lines
        IN /\ Counters(prom) = prom.gen.at
           /\ OneLinePerKey(lines, "modbus_requests_total", prom.requests,
                 LAMBDA l, k : LabelOf(l, "function_code") = Zfill2(k))
           /\ OneLinePerKey(lines, "modbus_register_reads_total", prom.reads,
                 LAMBDA l, k : /\ LabelOf(l, "address") = Str(k[2])
                               /\ LabelOf(l, "type") = RegisterTypeNames[k[1]])
           /\ OneLinePerKey(lines, "modbus_register_writes_total", prom.writes,
                 LAMBDA l, k : /\ LabelOf(l, "address") = Str(k[2])
                               /\ LabelOf(l, "type") = RegisterTypeNames[k[1]])
           /\ OneLinePerKey(lines, "modbus_errors_total", prom.errors,
                 LAMBDA l, k : LabelOf(l, "exception_code") = Zfill2(k))

C22_Witness ==
    /\ prom.gen.pc = "done"
    /\ prom.last = "generate_metrics"
    /\ prom.requests = (3 :> 2)
    /\ \E n \in 1..Len(prom.gen.lines) :
          prom.gen.lines[n] =
              <<"modbus_requests_total",
                << <<"function_code", "03">>,
                   <<"function_name", "read_holding_registers">> >>, 2>>
    /\ Cardinality(SamplesOf(prom.gen.lines, "modbus_requests_total")) = 1
    /\ SamplesOf(prom.gen.lines, "modbus_errors_total") = {}

\* ------------------------------------------------------------------------
\* MetricsServer and MetricsRequestHandler
\* ------------------------------------------------------------------------
\* metrics_server.py lines 112-134: the object after __init__, and a
\* collector that has recorded something or nothing
InitHttp ==
    /\ ServerOff
    /\ prep = NoPrep
    /\ net = NoNet
    /\ tel = NoTel
    /\ ext = NoExt
    /\ scan = NoScan
    /\ MoreIdle
    /\ \E c \in BOOLEAN : msrv = [NoMsrv EXCEPT !.pc = "on", !.collector = c]
    /\ \E r \in {NoCounters, (3 :> 2)} : \E e \in {NoCounters, (2 :> 1)} :
          prom = [NoProm EXCEPT !.pc = "on", !.requests = r, !.errors = e]

\* an operation can raise while exceptions are left
MayRaise == IF msrv.errors < MaxFaults THEN BOOLEAN ELSE {FALSE}

\* lines 143-145: start() while the server is running
StartRunning ==
    /\ msrv.pc = "on" /\ msrv.api = "idle"
    /\ msrv.running
    /\ msrv' = [msrv EXCEPT !.last = "start_noop"]
    /\ UNCHANGED <<server, prep, net, tel, prom, ext, scan, more>>

\* lines 147-168: start() while it is not; HTTPServer(...) binds a new
\* socket or raises, as it does while an earlier socket is still open on
\* the port
Start ==
    /\ msrv.pc = "on" /\ msrv.api = "idle"
    /\ ~msrv.running
    /\ msrv.made < MaxServers
    /\ \E raises \in (IF msrv.open # {} THEN {TRUE} ELSE MayRaise) :
          msrv' = IF raises
                  THEN [msrv EXCEPT !.handler = msrv.collector, !.running = FALSE,
                                    !.errors = IF msrv.open # {} THEN @ ELSE @ + 1,
                                    !.last = "start_raised"]
                  ELSE [msrv EXCEPT !.handler = msrv.collector,
                                    !.made = @ + 1, !.server = msrv.made + 1,
                                    !.open = @ \cup {msrv.made + 1},
                                    !.running = TRUE, !.thread = "started",
                                    !.shutdown = FALSE, !.last = "start"]
    /\ UNCHANGED <<server, prep, net, tel, prom, ext, scan, more>>

\* lines 177-179: the thread enters serve_forever
Serve ==
    /\ msrv.thread = "started"
    /\ msrv' = [msrv EXCEPT !.thread = "serving", !.last = "serve"]
    /\ UNCHANGED <<server, prep, net, tel, prom, ext, scan, more>>

\* lines 180-184: serve_forever raises: the error is logged and the thread
\* ends through its finally
ServeError ==
    /\ msrv.thread = "serving"
    /\ ~msrv.shutdown
    /\ msrv.errors < MaxFaults
    /\ msrv' = [msrv EXCEPT !.thread = "exited", !.running = FALSE,
                  !.errors = @ + 1, !.last = "serve_raised"]
    /\ UNCHANGED <<server, prep, net, tel, prom, ext, scan, more>>

\* lines 192-194: stop() while the server is not running
StopNotRunning ==
    /\ msrv.pc = "on" /\ msrv.api = "idle"
    /\ ~msrv.running
    /\ msrv' = [msrv EXCEPT !.last = "stop_noop"]
    /\ UNCHANGED <<server, prep, net, tel, prom, ext, scan, more>>

\* lines 196-200: stop() while it is: self._running = False, then
\* self.server.shutdown() asks the loop to end and waits for it
StopShutdown ==
    /\ msrv.pc = "on" /\ msrv.api = "idle"
    /\ msrv.running
    /\ msrv' = [msrv EXCEPT !.running = FALSE, !.shutdown = TRUE,
                  !.api = "shutdown", !.last = "stop_begin"]
    /\ UNCHANGED <<server, prep, net, tel, prom, ext, scan, more>>

\* line 179: serve_forever returns once it was asked to shut down
ServeReturn ==
    /\ msrv.thread \in {"started", "serving"}
    /\ msrv.shutdown
    /\ msrv' = [msrv EXCEPT !.thread = "finally", !.last = "serve_return"]
    /\ UNCHANGED <<server, prep, net, tel, prom, ext, scan, more>>

\* lines 182-184: finally: self._running = False
ServeFinally ==
    /\ msrv.thread = "finally"
    /\ msrv' = [msrv EXCEPT !.thread = "exited", !.running = FALSE,
                  !.last = "serve_finally"]
    /\ UNCHANGED <<server, prep, net, tel, prom, ext, scan, more>>

\* lines 200-201: shutdown() has returned; self.server.server_close()
StopClose ==
    /\ msrv.api = "shutdown"
    /\ msrv.thread \in {"finally", "exited"}
    /\ msrv' = [msrv EXCEPT !.open = @ \ {msrv.server}, !.api = "join",
                  !.last = "stop_close"]
    /\ UNCHANGED <<server, prep, net, tel, prom, ext, scan, more>>

\* lines 203-206: the thread is joined and stop() returns
StopReturn ==
    /\ msrv.api = "join"
    /\ msrv.thread = "exited"
    /\ msrv' = [msrv EXCEPT !.api = "idle", !.last = "stop"]
    /\ UNCHANGED <<server, prep, net, tel, prom, ext, scan, more>>

\* the paths of the GET requests
Paths == {"/metrics", "/health", "/", "/other"}

\* lines 68-89: _handle_metrics; generated is what generate_metrics gave
HandleMetrics(has_collector, generated) ==
    IF ~has_collector
    THEN [code |-> 500, body |-> "Metrics collector not initialized"]
    ELSE IF generated.ok
    THEN [code |-> 200, body |-> generated.val]
    ELSE [code |-> 500, body |-> "Internal Server Error"]

\* lines 91-102: _handle_health
HandleHealth == [code |-> 200, body |-> "OK\n"]

\* (a handler that knows no "/" path)
DoGetNoRoot(url, has_collector, generated) ==
    IF url = "/metrics" THEN HandleMetrics(has_collector, generated)
    ELSE IF url = "/health" THEN HandleHealth
    ELSE [code |-> 404, body |-> "Not Found"]

\* lines 55-66: do_GET
DoGet(url, has_collector, generated) ==
    IF url = "/metrics" THEN HandleMetrics(has_collector, generated)
    ELSE IF url = "/health" \/ url = "/" THEN HandleHealth
    ELSE [code |-> 404, body |-> "Not Found"]

\* the serving thread answers a GET request; generate_metrics returns its
\* text or raises
HandleGet ==
    /\ msrv.thread = "serving"
    /\ ~msrv.shutdown
    /\ \E url \in Paths : \E raises \in MayRaise :
          LET generated == IF raises THEN Raise("Exception")
                           ELSE Ok(GenerateMetrics(prom))
              answer == DoGet(url, msrv.handler, generated)
              raised == url = "/metrics" /\ msrv.handler /\ raises
          IN /\ raises => raised
             /\ msrv' = [msrv EXCEPT
                           !.errors = IF raised THEN @ + 1 ELSE @,
                           !.last = "GET",
                           !.resp = [url |-> url, code |-> answer.code,
                                     body |-> answer.body]]
    /\ UNCHANGED <<server, prep, net, tel, prom, ext, scan, more>>

NextHttp ==
    \/ StartRunning
    \/ Start
    \/ Serve
    \/ ServeError
    \/ StopNotRunning
    \/ StopShutdown
    \/ ServeReturn
    \/ ServeFinally
    \/ StopClose
    \/ StopReturn
    \/ HandleGet

SpecHttp == InitHttp /\ [][NextHttp]_vars

\* a step of the named kind has just been taken
Did(name) == msrv'.last = name /\ msrv' # msrv

\* C23: after a successful start() is_running() is True and stays True
\* until stop(); after stop() returns it is False and the socket is closed;
\* start() while running and stop() while not running create and close
\* nothing
C23_Lifecycle ==
    [][/\ Did("start") => msrv'.running
       /\ (msrv.running /\ ~msrv'.running) => Did("stop_begin")
       /\ (Did("stop") \/ Did("stop_noop")) =>
             ~msrv'.running /\ msrv'.open = {}
       /\ (Did("start_noop") \/ Did("stop_noop")) =>
             /\ msrv'.made = msrv.made
             /\ msrv'.open = msrv.open
             /\ msrv'.thread = msrv.thread]_vars

\* C24: GET /metrics answers 200 with the text generate_metrics gives for
\* the current counters, or 500 when no collector is set or the generation
\* raises; GET /health and GET / answer 200 with "OK\n"; any other path
\* answers 404; no counter changes
C24_Routing ==
    [][Did("GET") =>
          LET r == msrv'.resp
          IN /\ prom' = prom
             /\ tel' = tel
             /\ CASE r.url = "/metrics" ->
                       IF ~msrv.handler THEN r.code = 500
                       ELSE \/ r.code = 200 /\ r.body = GenerateMetrics(prom)
                                 /\ msrv'.errors = msrv.errors
                            \/ r.code = 500 /\ msrv'.errors = msrv.errors + 1
                  [] r.url \in {"/health", "/"} ->
                       r.code = 200 /\ r.body = "OK\n"
                  [] OTHER -> r.code = 404]_vars

C24_Witness ==
    /\ msrv.last = "GET"
    /\ msrv.resp.url = "/metrics"
    /\ msrv.resp.code = 200
    /\ prom.requests = (3 :> 2)
    /\ msrv.resp.body = GenerateMetrics(prom)
    /\ \E n \in 1..Len(msrv.resp.body) :
          /\ msrv.resp.body[n][1] = "modbus_requests_total"
          /\ msrv.resp.body[n][3] = 2

\* ------------------------------------------------------------------------
\* Calls of _extract_register_values
\* ------------------------------------------------------------------------
\* the values a bank holds: booleans for "d" and "c", words for "h" and "i"
BankValues(b) ==
    IF b \in {"d", "c"} THEN {PyBool(FALSE), PyBool(TRUE)}
    ELSE {PyInt(0), PyInt(WordMax)}

\* the blocks of a bank: sparse with some addresses, or sequential
BankBlocks(b) ==
    {[kind |-> "sparse", values |-> f] :
        f \in UNION {[D -> BankValues(b)] : D \in (SUBSET (0..(NumAddr - 1))) \ {{}}}}
      \cup {[kind |-> "seq", values |-> f] :
              f \in [0..(NumAddr - 1) -> BankValues(b)]}

\* the call _extract_register_values(slave_context, register_type), with
\* one of the four register types or another string
InitExtract ==
    /\ ServerOff
    /\ prep = NoPrep
    /\ net = NoNet
    /\ tel = NoTel
    /\ prom = NoProm
    /\ msrv = NoMsrv
    /\ scan = NoScan
    /\ MoreIdle
    /\ \E b \in Banks : \E blk \in BankBlocks(b) : \E rt \in {b, "x"} :
          ext = [pc |-> "call", register_type |-> rt, store |-> blk, out |-> <<>>]

\* lines 136-166: the call returns; a register type that is none of the
\* four gives the empty result (lines 146-147)
ExtractCall ==
    /\ ext.pc = "call"
    /\ ext' = [ext EXCEPT !.pc = "done",
                 !.out = IF ext.register_type \in Banks
                         THEN ExtractRegisterValues(ext.store)
                         ELSE <<>>]
    /\ UNCHANGED <<server, prep, net, tel, prom, msrv, scan, more>>

SpecExtract == InitExtract /\ [][ExtractCall]_vars

\* a dense bank holds a value at every address of the address space (the
\* all-zero sequential block, and the block of a mapping filled by
\* initializeUndefinedRegisters, which is a ModbusSparseDataBlock)
Dense(block) == DOMAIN block.values = 0..(NumAddr - 1)

\* C25: for a sparse bank the result is exactly the bank's address-to-value
\* set; for a dense bank it is exactly the addresses whose value differs
\* from zero/False, each with its current value
C25_ExtractContent ==
    (ext.pc = "done" /\ ext.register_type \in Banks) =>
        LET held == ext.store.values
            kept == IF ~Dense(ext.store) THEN DOMAIN held
                    ELSE {a \in DOMAIN held : held[a] \notin {PyInt(0), PyBool(FALSE)}}
        IN /\ DOMAIN ext.out = kept
           /\ \A a \in kept : ext.out[a] = held[a]

\* the sparse discrete-input block {0: True, 1: False}
SparseTrueFalse ==
    /\ ext.pc = "done"
    /\ ext.register_type = "d"
    /\ ext.store.kind = "sparse"
    /\ ext.store.values = (0 :> PyBool(TRUE) @@ 1 :> PyBool(FALSE))

\* C26: extracting that block leaves out the entry whose value
\* is False and returns {0: True}
C26_OmitsFalse ==
    SparseTrueFalse => ext.out = (0 :> PyBool(TRUE))

\* ------------------------------------------------------------------------
\* Read after write through the tracking blocks
\* ------------------------------------------------------------------------
\* the values of a call of setValues, as a list
Written(c) ==
    IF c.values.t = "list" THEN c.values ELSE PyList(<<c.values.v>>)

\* a call of getValues that follows a call of setValues on the same bank
\* and the same addresses
ReadsBack ==
    /\ tel.last # NoCall
    /\ tel.last.op = "set"
    /\ tel'.n = tel.n + 1
    /\ tel'.last.op = "get"
    /\ tel'.last.rt = tel.last.rt
    /\ tel'.last.address = tel.last.address
    /\ tel'.last.count = tel.last.count

WriteLists ==
    UNION {[1..k -> 0..WordMax] : k \in 1..NumAddr}

\* modbus_server.py line 219 (197, 208, 230): a bank without configured
\* entries is ModbusSequentialDataBlock.create(), all zero; the save thread
\* (start_auto_save, line 185) waits for its interval
InitScan ==
    /\ ServerOff
    /\ prep = NoPrep
    /\ net = NoNet
    /\ tel = NoTel
    /\ prom = NoProm
    /\ msrv = NoMsrv
    /\ ext = NoExt
    /\ MoreIdle
    /\ scan = [NoScan EXCEPT !.pc = "idle",
                             !.store = [a \in TelAddrs |-> 0]]

notScan == <<server, prep, net, tel, prom, msrv, ext, more>>

\* the server thread serves a write of one or more registers: one call of
\* setValues, which no other request of the server thread interleaves
WriteRegisters ==
    /\ scan.pc # "off"
    /\ scan.n < MaxCalls
    /\ \E address \in TelAddrs : \E values \in WriteLists :
          /\ FitsBlock(address, Len(values))
          /\ LET store == WrappedSetValues(scan.store, address, PyList(values))
             IN scan' = [scan EXCEPT
                           !.store = store,
                           !.n = @ + 1,
                           !.last = [op |-> "write", address |-> address,
                                     values |-> values],
                           !.states = IF scan.pc = "scan" THEN @ \cup {store}
                                      ELSE @,
                           !.during = IF scan.pc = "scan" THEN @ + 1 ELSE @]
    /\ UNCHANGED notScan

\* the server thread serves a read of one or more registers: one call of
\* getValues
ReadRegisters ==
    /\ scan.pc # "off"
    /\ scan.n < MaxCalls
    /\ \E address \in TelAddrs : \E count \in 1..NumAddr :
          /\ FitsBlock(address, count)
          /\ scan' = [scan EXCEPT
                        !.n = @ + 1,
                        !.last = [op |-> "read", address |-> address,
                                  values |-> WrappedGetValues(scan.store,
                                                              address, count).v]]
    /\ UNCHANGED notScan

\* register_persistence lines 100, 154-157: save_registers, in the save
\* thread, reaches the loop over a sequential block
ScanBegin ==
    /\ scan.pc \in {"idle", "done"}
    /\ scan' = [scan EXCEPT !.pc = "scan", !.addr = 0, !.result = <<>>,
                            !.states = {scan.store}, !.during = 0]
    /\ UNCHANGED notScan

\* lines 158-160: one turn of the loop: values = store.getValues(addr, 1);
\* if values and values[0] != 0: result[addr] = values[0]
ScanStep ==
    /\ scan.pc = "scan"
    /\ scan.addr < NumAddr
    /\ LET values == WrappedGetValues(scan.store, scan.addr, 1).v
       IN scan' = [scan EXCEPT
                     !.addr = @ + 1,
                     !.result = IF values # <<>> /\ values[1] # 0
                                THEN (scan.addr :> PyInt(values[1])) @@ @
                                ELSE @]
    /\ UNCHANGED notScan

\* line 162: return result
ScanReturn ==
    /\ scan.pc = "scan"
    /\ scan.addr = NumAddr
    /\ scan' = [scan EXCEPT !.pc = "done"]
    /\ UNCHANGED notScan

NextScan ==
    \/ WriteRegisters
    \/ ReadRegisters
    \/ ScanBegin
    \/ ScanStep
    \/ ScanReturn

SpecScan == InitScan /\ [][NextScan]_vars

\* the block with these contents, as _extract_register_values is given it
Sequential(store) ==
    [kind |-> "seq", values |-> [a \in DOMAIN store |-> PyInt(store[a])]]

\* C28: no snapshot holds a partially applied write of several registers:
\* when one write request is served while a bank is extracted, what the
\* extraction returns is the extraction of the contents before the write
\* or of the contents after it
C28_NoTornSnapshot ==
    (scan.pc = "done" /\ scan.during <= 1) =>
        \E store \in scan.states :
            scan.result = ExtractRegisterValues(Sequential(store))

\* ------------------------------------------------------------------------
\* Requests for addresses a bank does not hold
\* ------------------------------------------------------------------------
\* (a validate that looks at the start address only)
WrappedValidateStart(block, address, count) ==
    count >= 1 /\ address \in DOMAIN block

\* validate of a wrapped block: every address of [address, address + count)
\* is an address of the block
WrappedValidate(block, address, count) ==
    /\ count >= 1
    /\ \A a \in address..(address + count - 1) : a \in DOMAIN block

\* metrics_datastore.py lines 61-74: validate of the tracking block is the
\* wrapped block's
TrackValidate(t, register_type, address, count) ==
    WrappedValidate(t.blocks[register_type], address, count)

\* the exception response IllegalDataAddress
IllegalAddress == [t |-> "exception", v |-> 2]

\* modbus_server.py lines 187-232: a bank with configured entries is a
\* sparse block that holds the configured addresses only; a bank without
\* is a sequential block that holds every address; line 232: the store
\* maps request addresses as given or shifted by one
InitAddress ==
    /\ ServerOff
    /\ prep = NoPrep
    /\ RestIdle
    /\ \E sh \in {0, 1} : net = [NoNet EXCEPT !.shift = sh]
    /\ \E c \in BOOLEAN : \E held \in (SUBSET TelAddrs) \ {{}} :
          tel = [NoTel EXCEPT !.collector = c,
                              !.blocks = [b \in Banks |-> [a \in held |-> 0]]]

\* a read request (function codes 1-4) for count values from address: the
\* store validates the mapped range, then answers with the values or with
\* IllegalDataAddress
AddressedRead ==
    /\ tel.n < MaxCalls
    /\ \E fc \in ReadCodes : \E address \in TelAddrs : \E count \in 1..NumAddr :
          LET at == address + net.shift
              rt == BankOf(fc)
              call == [op |-> "get", rt |-> rt, address |-> at,
                       count |-> count, values |-> PyNone,
                       result |-> IllegalAddress, wrapped |-> PyNone]
          IN tel' = IF TrackValidate(tel, rt, at, count)
                    THEN LET r == GetValues(tel, rt, at, count)
                         IN [Received(r.tel, fc) EXCEPT
                               !.last = [call EXCEPT !.result = r.ret]]
                    ELSE [ExceptionResponse(Received(tel, fc), 2) EXCEPT
                               !.last = call]
    /\ UNCHANGED <<server, prep, net, rest>>

\* a write request (function codes 5, 6, 15, 16) of values to address
AddressedWrite ==
    /\ tel.n < MaxCalls
    /\ \E fc \in WriteCodes : \E address \in TelAddrs : \E values \in RequestValues(fc) :
          LET at == address + net.shift
              rt == BankOf(fc)
              call == [op |-> "set", rt |-> rt, address |-> at,
                       count |-> CountOf(values), values |-> values,
                       result |-> IllegalAddress, wrapped |-> PyNone]
          IN tel' = IF TrackValidate(tel, rt, at, CountOf(values))
                    THEN LET r == TrackSetValues(tel, rt, at, values)
                         IN [Received(r.tel, fc) EXCEPT
                               !.last = [call EXCEPT !.result = r.ret]]
                    ELSE [ExceptionResponse(Received(tel, fc), 2) EXCEPT
                               !.last = call]
    /\ UNCHANGED <<server, prep, net, rest>>

NextAddress ==
    \/ AddressedRead
    \/ AddressedWrite

SpecAddress == InitAddress /\ [][NextAddress]_vars

\* the range of the call lies in the addresses its bank holds
Inside(c) ==
    \A a \in c.address..(c.address + c.count - 1) : a \in DOMAIN tel.blocks[c.rt]

MetricsPaths == {"/metrics", "/prom"}

\* the collector object number c: it has counted c requests of code 3
Collector(c) == [NoProm EXCEPT !.pc = "on", !.requests = (3 :> c)]

\* metrics_server.py lines 38-41: the class variables as the class body
\* sets them; lines 112-134: each MetricsServer after __init__, with its
\* own collector, its own port and a path
InitWeb ==
    /\ ServerOff
    /\ prep = NoPrep
    /\ net = NoNet
    /\ tel = NoTel
    /\ prom = NoProm
    /\ msrv = NoMsrv
    /\ ext = NoExt
    /\ scan = NoScan
    /\ snap = NoSnap
    /\ lk = NoLk
    /\ \E paths \in [1..MaxServers -> MetricsPaths] :
          web = [NoWeb EXCEPT
                   !.pc = "on",
                   !.servers = [i \in 1..MaxServers |->
                                   [metrics_collector |-> i, path |-> paths[i],
                                    running |-> FALSE]]]

notWeb == <<server, prep, net, tel, prom, msrv, ext, scan, snap, lk>>

\* lines 143-160: start(): nothing while running; else the class variables
\* are set from the object and its server is started
WebStart ==
    /\ web.pc = "on"
    /\ \E i \in 1..MaxServers :
          web' = IF web.servers[i].running
                 THEN [web EXCEPT !.last = "start_noop", !.who = i]
                 ELSE [web EXCEPT
                         !.handler = [metrics_collector |->
                                          web.servers[i].metrics_collector,
                                      metrics_path |-> web.servers[i].path],
                         !.servers[i].running = TRUE,
                         !.last = "start", !.who = i]
    /\ UNCHANGED notWeb

\* lines 186-206: stop(): nothing while not running; else the server is
\* shut down and closed
WebStop ==
    /\ web.pc = "on"
    /\ \E i \in 1..MaxServers :
          web' = IF ~web.servers[i].running
                 THEN [web EXCEPT !.last = "stop_noop", !.who = i]
                 ELSE [web EXCEPT !.servers[i].running = FALSE,
                                  !.last = "stop", !.who = i]
    /\ UNCHANGED notWeb

\* lines 55-89: a GET request to a running server is answered by a
\* MetricsRequestHandler: do_GET, and _handle_metrics with the class
\* variable metrics_collector
WebGet ==
    /\ web.pc = "on"
    /\ \E i \in 1..MaxServers : \E url \in Paths \cup MetricsPaths :
          /\ web.servers[i].running
          /\ LET c == web.handler.metrics_collector
                 answer == DoGet(url, c # 0, Ok(GenerateMetrics(Collector(c))))
             IN web' = [web EXCEPT
                          !.last = "GET", !.who = i,
                          !.resp = [url |-> url, code |-> answer.code,
                                    body |-> answer.body]]
    /\ UNCHANGED notWeb

NextWeb ==
    \/ WebStart
    \/ WebStop
    \/ WebGet

SpecWeb == InitWeb /\ [][NextWeb]_vars

\* a GET request has just been answered
Answered == web'.last = "GET" /\ web' # web

\* C31: a GET of the path a running MetricsServer was constructed with is
\* answered 200 with the metrics output of a collector
C31_ConfiguredPath ==
    [][(Answered /\ web'.resp.url = web.servers[web'.who].path) =>
          /\ web'.resp.code = 200
          /\ \E c \in 1..MaxServers :
                web'.resp.body = GenerateMetrics(Collector(c))]_vars

\* C35: a GET of /metrics on a running MetricsServer is answered with the
\* counters of the collector that server was constructed with, whatever
\* other servers were started or stopped before
C35_OwnCollector ==
    [][(Answered /\ web'.resp.url = "/metrics") =>
          /\ web'.resp.code = 200
          /\ web'.resp.body =
                GenerateMetrics(Collector(web.servers[web'.who].metrics_collector))]_vars

\* ------------------------------------------------------------------------
\* save_registers in the auto-save thread while the server thread writes
\* ------------------------------------------------------------------------
\* modbus_server.py lines 189-230: every bank has one configured entry, at
\* address 0, and is a sparse block; nothing is saved yet
InitSnap ==
    /\ ServerOff
    /\ prep = NoPrep
    /\ net = NoNet
    /\ tel = NoTel
    /\ prom = NoProm
    /\ msrv = NoMsrv
    /\ ext = NoExt
    /\ scan = NoScan
    /\ web = NoWeb
    /\ lk = NoLk
    /\ snap = [NoSnap EXCEPT
                 !.pc = "idle",
                 !.store = [b \in Banks |->
                               [kind |-> "sparse", values |-> (0 :> PyInt(0))]]]

notSnap == <<server, prep, net, tel, prom, msrv, ext, scan, web, lk>>

\* the server thread serves a write of one coil or one holding register
SnapWrite ==
    /\ snap.pc # "off"
    /\ snap.n < MaxCalls
    /\ \E b \in Writable : \E v \in 0..WordMax :
          LET store == [snap.store EXCEPT ![b].values[0] = PyInt(v)]
          IN snap' = [snap EXCEPT
                        !.store = store,
                        !.n = @ + 1,
                        !.states = IF snap.pc = "extract" THEN @ \cup {store}
                                   ELSE @]
    /\ UNCHANGED notSnap

\* register_persistence lines 92-95: save_registers is called
SnapBegin ==
    /\ snap.pc \in {"idle", "saved", "skipped"}
    /\ snap' = [snap EXCEPT !.pc = "extract", !.done = 0, !.data = <<>>,
                            !.states = {snap.store}]
    /\ UNCHANGED notSnap

\* lines 97-102: the next bank is extracted, "d", "c", "h", "i" in turn
SnapExtract ==
    /\ snap.pc = "extract"
    /\ snap.done < Len(BankOrder)
    /\ LET b == BankOrder[snap.done + 1]
       IN snap' = [snap EXCEPT
                     !.done = @ + 1,
                     !.data = (b :> ExtractRegisterValues(snap.store[b])) @@ @]
    /\ UNCHANGED notSnap

\* lines 104-118: nothing is written when the data equals _last_data; else
\* the data is written to the temp file, which replaces the persistence
\* file, and _last_data is set
SnapSave ==
    /\ snap.pc = "extract"
    /\ snap.done = Len(BankOrder)
    /\ snap' = IF snap.data = snap.last_data
               THEN [snap EXCEPT !.pc = "skipped"]
               ELSE [snap EXCEPT !.pc = "saved", !.file = snap.data,
                                 !.last_data = snap.data]
    /\ UNCHANGED notSnap

NextSnap ==
    \/ SnapWrite
    \/ SnapBegin
    \/ SnapExtract
    \/ SnapSave

SpecSnap == InitSnap /\ [][NextSnap]_vars

\* C32: the content a call of save_registers writes is the content the
\* four banks had at one instant of the call
C32_PointInTime ==
    snap.pc = "saved" =>
        \E store \in snap.states : snap.file = SnapshotData(store)

\* ------------------------------------------------------------------------
\* Threads that call one PrometheusMetrics object
\* ------------------------------------------------------------------------
\* the calls that change a counter or the gauge
CounterCalls ==
    {"record_request", "record_register_read", "record_register_write",
     "record_error", "increment_connected_clients",
     "decrement_connected_clients"}

\* prometheus_metrics.py lines 93-168: the attribute a call updates
CallField(call) ==
    CASE call = "record_request" -> "requests"
      [] call = "record_register_read" -> "reads"
      [] call = "record_register_write" -> "writes"
      [] call = "record_error" -> "errors"
      [] OTHER -> "clients"

\* the value a call stores, from the value it loaded: += 1, or
\* max(0, value - 1) for decrement_connected_clients (line 168)
CallValue(call, value) ==
    IF call = "decrement_connected_clients"
    THEN (IF value - 1 > 0 THEN value - 1 ELSE 0)
    ELSE value + 1

\* lines 74-91: the object after __init__; no thread is in a call
InitThreads ==
    /\ ServerOff
    /\ prep = NoPrep
    /\ net = NoNet
    /\ tel = NoTel
    /\ prom = NoProm
    /\ msrv = NoMsrv
    /\ ext = NoExt
    /\ scan = NoScan
    /\ web = NoWeb
    /\ snap = NoSnap
    /\ lk = [NoLk EXCEPT
               !.pc = "on",
               !.threads = [t \in 1..MaxThreads |->
                               [pc |-> "idle", call |-> "none", value |-> 0]]]

notLk == <<server, prep, net, tel, prom, msrv, ext, scan, web, snap>>

\* a thread calls one of the methods and reaches its "with self._lock"
ThreadCall ==
    /\ lk.pc = "on"
    /\ lk.n < MaxCalls
    /\ \E t \in 1..MaxThreads : \E call \in CounterCalls :
          /\ lk.threads[t].pc = "idle"
          /\ lk' = [lk EXCEPT
                      !.threads[t] = [pc |-> "with", call |-> call, value |-> 0],
                      !.n = @ + 1,
                      !.overlap = @ \/ \E u \in 1..MaxThreads :
                                          lk.threads[u].pc # "idle"]
    /\ UNCHANGED notLk

\* with self._lock: the thread takes the lock when no thread holds it
ThreadAcquire ==
    /\ \E t \in 1..MaxThreads :
          /\ lk.threads[t].pc = "with"
          /\ LockFree(lk)
          /\ LET call == lk.threads[t].call
                 f == CallField(call)
             IN lk' = [lk EXCEPT
                         !.lock = t,
                         !.threads[t].pc = "load",
                         !.expect[f] = CallValue(call, @)]
    /\ UNCHANGED notLk

\* the statement under the lock reads the attribute ...
ThreadLoad ==
    /\ \E t \in 1..MaxThreads :
          /\ lk.threads[t].pc = "load"
          /\ lk' = [lk EXCEPT
                      !.threads[t].pc = "store",
                      !.threads[t].value = lk.counts[CallField(lk.threads[t].call)]]
    /\ UNCHANGED notLk

\* ... and stores the new value
ThreadStore ==
    /\ \E t \in 1..MaxThreads :
          /\ lk.threads[t].pc = "store"
          /\ LET call == lk.threads[t].call
             IN lk' = [lk EXCEPT
                         !.threads[t].pc = "release",
                         !.counts[CallField(call)] =
                             CallValue(call, lk.threads[t].value)]
    /\ UNCHANGED notLk

\* the with block ends: the lock is released and the call returns
ThreadRelease ==
    /\ \E t \in 1..MaxThreads :
          /\ lk.threads[t].pc = "release"
          /\ lk' = [lk EXCEPT !.lock = 0,
                              !.threads[t] = [pc |-> "idle", call |-> "none",
                                              value |-> 0]]
    /\ UNCHANGED notLk

\* lines 208-261: generate_metrics, in the thread of the metrics server,
\* reads every counter and the gauge under the lock
ThreadGenerate ==
    /\ lk.pc = "on"
    /\ LockFree(lk)
    /\ lk' = [lk EXCEPT !.seen = lk.counts, !.wanted = lk.expect]
    /\ UNCHANGED notLk

NextThreads ==
    \/ ThreadCall
    \/ ThreadAcquire
    \/ ThreadLoad
    \/ ThreadStore
    \/ ThreadRelease
    \/ ThreadGenerate

SpecThreads == InitThreads /\ [][NextThreads]_vars

\* no thread is inside a call
Quiet == \A t \in 1..MaxThreads : lk.threads[t].pc = "idle"

\* C33: whatever the interleaving of the threads, once the calls have
\* returned every counter and the gauge hold what the calls add up to, and
\* what generate_metrics reads is what the calls that took the lock before
\* it add up to
C33_NoLostUpdate ==
    lk.pc = "on" =>
        /\ Quiet => lk.counts = lk.expect
        /\ lk.seen = lk.wanted

\* two calls of record_request were in progress at once, both are counted,
\* and generate_metrics read the counter between them
C33_Witness ==
    /\ Quiet
    /\ lk.overlap
    /\ lk.counts.requests = 2
    /\ lk.seen.requests = 1

\* the value generate_metrics reports as modbus_connected_clients
ReportedClients(p) == GaugeLines(p)[Len(Blank) + Len(Header("x", "gauge")) + 1][3]

\* C34: the connected-clients gauge is never negative, after any calls of
\* the gauge operations and of reset_metrics, and neither is the value
\* reported as modbus_connected_clients
C34_GaugeNonNegative ==
    prom.pc = "on" => prom.clients >= 0 /\ ReportedClients(prom) >= 0

\* ------------------------------------------------------------------------
\* The cache of the last written snapshot
\* ------------------------------------------------------------------------
\* C38: _last_data changes only in the step whose rename succeeded, and
\* then to the data that was renamed into place; a step of save_registers
\* that fails leaves it as it was; so it always equals the data of the
\* last successful write of the object, which the persistence file holds
\* after every step that changes the cache or the file,
\* and a save that finds the computed data different from it goes on to
\* write
C38_CacheAfterRename ==
    [][/\ \A c \in Callers :
             /\ (SaveStepOf(c) /\ StepRaises(c)) => last_data' = last_data
             /\ (thr[c].pc = "s_begin" /\ thr'[c].pc \notin {"s_begin", "none"}
                   /\ ~DataEq(SnapshotData(context), last_data)) =>
                      thr'[c].pc = "s_open"
       /\ last_data' # last_data =>
             \E c \in Callers :
                /\ thr[c].pc = "s_replace"
                /\ thr'[c].wrote
                /\ last_data' = thr[c].data
       /\ last_data' = last_written'
       /\ (/\ last_data' # PyNone
           /\ \/ last_data' # last_data
              \/ FileChunks(path, content)' # FileChunks(path, content)) =>
             FileHolds(last_data)']_vars

\* after a successful save a later save has failed: the cache still is the
\* data of the successful one, which differs from the registers now
C38_Witness ==
    /\ thr[1].ret = "False"
    /\ faults = 1
    /\ last_data # PyNone
    /\ last_data = last_written
    /\ FileHolds(last_data)
    /\ ~DataEq(SnapshotData(context), last_data)

\* ------------------------------------------------------------------------
\* save_registers when the extraction of a bank meets a datastore error
\* ------------------------------------------------------------------------
\* (an extraction that lets the datastore error out)
ExtractPropagating(store, register_type, failAt) ==
    IF register_type \notin Banks THEN Ok(<<>>)
    ELSE IF failAt < NumAddr THEN Raise("Exception")
    ELSE Ok(ExtractRegisterValues(store[register_type]))

\* register_persistence lines 136-166: _extract_register_values when the
\* datastore raises at address failAt (NumAddr: it does not raise): {} for
\* an unknown register type (lines 146-147); the except of lines 164-166
\* returns the result so far, {} for a sparse block, the non-zero entries
\* below failAt for a sequential one
ExtractOrFail(store, register_type, failAt) ==
    IF register_type \notin Banks THEN Ok(<<>>)
    ELSE LET block == store[register_type]
             all == ExtractRegisterValues(block)
         IN IF failAt >= NumAddr THEN Ok(all)
            ELSE IF block.kind = "sparse" THEN Ok(<<>>)
            ELSE Ok([a \in {x \in DOMAIN all : x < failAt} |-> all[a]])

\* the holding registers are a sequential block or a sparse one, the other
\* banks sparse blocks with one entry; the values are not zero
InitFail ==
    /\ ServerOff
    /\ prep = NoPrep
    /\ net = NoNet
    /\ tel = NoTel
    /\ prom = NoProm
    /\ msrv = NoMsrv
    /\ ext = NoExt
    /\ scan = NoScan
    /\ web = NoWeb
    /\ lk = NoLk
    /\ \E h \in {[kind |-> "seq", values |-> [a \in 0..(NumAddr - 1) |-> PyInt(1)]],
                 [kind |-> "sparse", values |-> (0 :> PyInt(1))]} :
          snap = [NoSnap EXCEPT
                    !.pc = "idle",
                    !.store = [b \in Banks |->
                                  IF b = "h" THEN h
                                  ELSE [kind |-> "sparse",
                                        values |-> (0 :> PyInt(1))]]]

\* lines 92-95: save_registers is called
FailBegin ==
    /\ snap.pc \in {"idle", "saved", "skipped", "failed"}
    /\ snap.n < MaxCalls
    /\ snap' = [snap EXCEPT !.pc = "extract", !.done = 0, !.data = <<>>,
                            !.failed = {}, !.ret = "none", !.wrote = FALSE,
                            !.n = @ + 1]
    /\ UNCHANGED notSnap

\* lines 97-102: the next bank is extracted; its datastore raises at some
\* address, or does not
FailExtract ==
    /\ snap.pc = "extract"
    /\ snap.done < Len(BankOrder)
    /\ \E failAt \in 0..NumAddr :
          /\ failAt < NumAddr => Cardinality(snap.failed) < MaxFaults
          /\ LET b == BankOrder[snap.done + 1]
                 r == ExtractOrFail(snap.store, b, failAt)
             IN snap' = IF r.ok
                        THEN [snap EXCEPT
                                !.done = @ + 1,
                                !.data = (b :> r.val) @@ @,
                                !.failed = IF failAt < NumAddr THEN @ \cup {b}
                                           ELSE @]
                        ELSE [snap EXCEPT !.pc = "failed", !.ret = "False",
                                          !.failed = @ \cup {b}]
    /\ UNCHANGED notSnap

\* lines 104-118: return True when the data equals _last_data; else write
\* the temp file, rename it over the persistence file, set _last_data and
\* return True (the file operations succeed)
FailSave ==
    /\ snap.pc = "extract"
    /\ snap.done = Len(BankOrder)
    /\ snap' = IF snap.data = snap.last_data
               THEN [snap EXCEPT !.pc = "skipped", !.ret = "True"]
               ELSE [snap EXCEPT !.pc = "saved", !.ret = "True",
                                 !.wrote = TRUE, !.file = snap.data,
                                 !.last_data = snap.data]
    /\ UNCHANGED notSnap

NextFail ==
    \/ FailBegin
    \/ FailExtract
    \/ FailSave

SpecFail == InitFail /\ [][NextFail]_vars

\* a call of save_registers in which an extraction met an error has ended
FailedCallEnds ==
    /\ snap.pc = "extract"
    /\ snap'.pc \in {"saved", "skipped", "failed"}
    /\ snap'.failed # {}

\* the bank's part of the data is empty, or the entries the bank holds
\* below some address
Truncated(b, data) ==
    \E failAt \in 0..(NumAddr - 1) :
        data[b] = ExtractOrFail(snap.store, b, failAt).val

\* _extract_register_values does not raise, whatever the register type and
\* wherever the datastore raises
NeverRaises ==
    \A b \in Banks \cup {"x"} : \A failAt \in 0..NumAddr :
        LET r == ExtractOrFail(snap.store, b, failAt)
        IN /\ r.ok
           /\ b = "x" => r.val = <<>>
           /\ (failAt < NumAddr /\ b \in Banks /\ snap.store[b].kind = "sparse")
                 => r.val = <<>>

Registered(t) == api_pc = "idle" /\ save_thread = t

\* C37: auto-save can be restarted: the thread that start_auto_save has
\* registered, after a first start, after a stop and a second start alike,
\* stays in its loop of periodic saves until the next stop_auto_save; it
\* performs no final save and does not end before that
C37_Restartable ==
    \A t \in AutoThreads :
        Registered(t) => thr[t].mode # "final" /\ thr[t].pc # "done"

\* ------------------------------------------------------------------------
\* Start-up of run_server: the snapshot or the configuration
\* ------------------------------------------------------------------------
\* the persistence file found at the start: none, or a file holding null,
\* an empty object or a partial snapshot
BootFiles == {<<>>} \cup {FileOf(d) : d \in SeedDocs \cup {PyNone, PyDict(<<>>)}}

InitBoot ==
    /\ config \in Configs
    /\ \E f \in BootFiles :
         /\ path = [file |-> IF f = <<>> THEN 0 ELSE 1, tmp |-> 0]
         /\ content = [n \in Inodes |-> IF n = 1 THEN f ELSE <<>>]
    /\ context = NoContext
    /\ loaded_data = PyNone
    /\ srv_pc = "start"
    /\ last_data = PyNone
    /\ save_thread = 0
    /\ stop_event = FALSE
    /\ thr = [c \in Callers |-> NoThread]
    /\ api_pc = "off"
    /\ trace = <<>>
    /\ load_seen = NoLoad
    /\ last_written = PyNone
    /\ writes = 0
    /\ faults = 0
    /\ CallsIdle

SpecBoot == InitBoot /\ [][NextSeed]_vars

\* load_registers has returned non-empty data
SnapshotLoaded == loaded_data # PyNone /\ Len(loaded_data.v) > 0

\* the block of bank b built from the configuration file's registers
ConfiguredBlock(b) ==
    DataBlock(PrepareRegister(DictGet(config.registers, ConfigKey[b]),
                  InitType[b], config.initializeUndefinedRegisters).val).val

\* C39: snapshot precedence at start-up is all or nothing. When
\* load_registers returned non-empty data, every bank is seeded from the
\* snapshot alone: a bank absent from the snapshot is the all-zero dense
\* bank, and in a bank the snapshot has entries for an address holds its
\* snapshot value, or the default or nothing when the snapshot has none
\* for it, never the configured value. The configured registers make the
\* banks only when no snapshot data was loaded.
C39_SnapshotPrecedence ==
    srv_pc \in {"autosave", "listen"} =>
        IF SnapshotLoaded
        THEN \A b \in Banks :
               /\ ~SeedsBank(loaded_data, b) => context[b] = SequentialCreate
               /\ \A a \in 0..(NumAddr - 1) :
                     LET vs == SeedValues(loaded_data, b, a)
                     IN IF vs # {}
                        THEN \A v \in vs :
                               Answer(context[b], a)
                                   = <<"value", Denoted(v, InitType[b])>>
                        ELSE Answer(context[b], a)
                                 \in {<<"value", 0>>, <<"exception", 2>>}
        ELSE \A b \in Banks : context[b] = ConfiguredBlock(b)

C39_Witness ==
    /\ srv_pc = "listen"
    /\ SnapshotLoaded
    /\ ~SeedsBank(loaded_data, "h")
    /\ SeedValues(loaded_data, "c", 1) = {PyBool(FALSE)}
    /\ ~config.initializeUndefinedRegisters
    /\ Answer(ConfiguredBlock("h"), 1) = <<"value", 1>>
    /\ Answer(ConfiguredBlock("c"), 0) = <<"value", 1>>
    /\ context["h"] = SequentialCreate
    /\ Answer(context["c"], 0) = <<"exception", 2>>
    /\ Answer(context["c"], 1) = <<"value", 0>>

====
